---- MODULE Spec2Model ----
(***************************************************************************)
(* A model of the image-processing engine of akeo_slicer.py: the slicer    *)
(* (split_image_at_points, split_image_at_points_custom,                   *)
(* split_image_by_interval), the merger (merge_images_advanced,            *)
(* _merge_images_streaming) and the decode cache (ImageCache).  Each       *)
(* operation is a state machine of its own, with its own specification:    *)
(* SplitSpec, MergeSpec, CacheSpec (calls made one after the other),       *)
(* SharedSpec (calls made from two threads) and RunSpec (one split or one  *)
(* merge); the variables of the operations that a specification does not   *)
(* run stay at their idle values.                                          *)
(***************************************************************************)
EXTENDS Integers, Sequences, FiniteSets, TLC

VARIABLES
    \* ---- split_image_at_points / _custom / split_image_by_interval ----
    sp_fn,        \* the function that was called
    sp_cancel,    \* the cancel_event of the caller's ProgressDialog is set
    sp_interval,  \* the interval argument of split_image_by_interval
    sp_pre_img,   \* the img of split_image_by_interval: "none", "open", "closed"
    sp_version,   \* the version argument
    sp_digits,    \* the digits argument (split_image_at_points_custom)
    sp_w,         \* width of the decoded source (img.size[0])
    sp_h,         \* height of the decoded source (img.size[1])
    sp_arg,       \* the points argument as the caller passed it
    sp_points,    \* the local points: the argument, then its normalised value
    sp_platform,  \* TRUE when a platform name was passed
    sp_pc,        \* position in the function body
    sp_seq,       \* seq = [0] + points + [h]
    sp_i,         \* loop index i (0-based, as in the code)
    sp_img,       \* the decoded source: "none", "open" or "closed"
    sp_probe,     \* the .write_test file: "absent", "present" or "deleted"
    sp_slices,    \* slice files written so far, in the order written
    sp_crops,     \* number of img.crop calls made
    sp_progress,  \* values passed to progress_callback, as <<num, den>>
    sp_error,     \* what messagebox.showerror was given
    \* ---- merge_images_advanced / _merge_images_streaming ----
    mg_files,     \* task.files: the dimensions of each input, in order
    mg_platform,  \* TRUE when task.platform names a platform
    mg_pc,        \* position in the function body
    mg_i,         \* loop index i (0-based)
    mg_info,      \* images_info
    mg_total_height,
    mg_max_width,
    mg_cancel,    \* cancel_event.is_set()
    mg_canvas,    \* merged / final_img: [state, w, h]
    mg_y_offset,
    mg_pastes,    \* paste calls on the composite, in order
    mg_chunk_y,   \* y of the streaming chunk loop
    mg_temp_files,\* temp_files
    mg_disk,      \* temporary files that exist on disk
    mg_next_temp, \* name of the next temporary file
    mg_output,    \* what was encoded to task.output_path
    mg_progress,  \* values passed to progress_callback, as <<num, den>>
    mg_result,    \* how the call ended
    mg_observed,  \* the loop whose check saw the cancellation flag set
    \* ---- ImageCache ----
    cache,            \* self.cache, in dict (insertion) order
    max_size_mb,      \* self.max_size_mb
    current_size_mb,  \* self.current_size_mb, in bytes (MiB * 2^20)
    ca_clock,         \* number of get/clear calls made so far
    ca_evicted,       \* entries popped by the last _add_to_cache, in order
    ca_last,          \* what the last call did
    ca_returned,      \* what the last call returned: the buffer and its size
    threads,          \* per calling thread: its place in get / _add_to_cache
                      \* and the locals of the call
    closed,           \* the buffers old_img.close() was called on, in order
    \* ---- save_image_with_quality ----
    sv_pc,            \* place in the function
    sv_mode,          \* img.mode of the caller's image
    sv_quality,       \* the quality argument: a label or an int
    sv_png,           \* save_as_png
    sv_platform,      \* a platform name was passed
    sv_img_copy,      \* the buffer the local img_copy is bound to
    sv_background,    \* the buffer the local background is bound to
    sv_made,          \* buffers that exist: the caller's and those created
    sv_closed,        \* buffers close() was called on
    sv_saved,         \* format and options handed to img_copy.save
    sv_result,        \* how the call ended
    \* ---- load_psd_image ----
    pd_pc,            \* place in the function
    pd_doc,           \* the document: width, height, bands of its flattening
    pd_file_over,     \* file_size_mb > memory_limit
    pd_limit,         \* memory_limit, in MB
    pd_psd,           \* the local psd: unbound, open or closed
    pd_tried,         \* the strategies called so far and how each ended
    pd_img,           \* the local img: unbound, None, array or image
    pd_img_closed,    \* img.close() was called
    pd_result,        \* what the call gave back: an image, or it raised
    pd_error,         \* what made it raise
    \* ---- FileRow and App._batch ----
    rw_pos,           \* per row: the text of the positions field, as tokens
    rw_state,         \* per row: self.state
    rw_hist,          \* per row: self.hist, each entry with how its split ended
    rw_worker,        \* per row: the worker thread of _do_split
    bt_pc,            \* _batch: which callback is armed
    bt_t,             \* _batch: t, the rows with input
    bt_index,         \* _batch: index
    bt_original,      \* _batch: original_state of the armed check_completion
    bt_completed,     \* _batch: completed
    bt_cancel,        \* _batch: progress_dialog.cancel_event
    bt_dialog,        \* _batch: the progress dialog
    \* ---- PreviewWindow: the cut-point editor ----
    ed_cut_points,    \* self.cut_points
    ed_undo_stack,    \* self.undo_stack
    ed_redo_stack,    \* self.redo_stack
    ed_selected,      \* self.selected_point_idx, -1 for None
    ed_dragging,      \* self.dragging
    ed_pressed,       \* the left mouse button is held down on the canvas
    ed_grab,          \* cut_points at the press that began the drag
    ed_mark,          \* the last edit (before, after) and what followed it
    ed_steps          \* number of events handled so far

saveVars == <<sv_pc, sv_mode, sv_quality, sv_png, sv_platform, sv_img_copy,
              sv_background, sv_made, sv_closed, sv_saved, sv_result>>
psdVars == <<pd_pc, pd_doc, pd_file_over, pd_limit, pd_psd, pd_tried, pd_img,
             pd_img_closed, pd_result, pd_error>>
rowVars == <<rw_pos, rw_state, rw_hist, rw_worker, bt_pc, bt_t, bt_index,
             bt_original, bt_completed, bt_cancel, bt_dialog>>
editVars == <<ed_cut_points, ed_undo_stack, ed_redo_stack, ed_selected, ed_dragging,
              ed_pressed, ed_grab, ed_mark, ed_steps>>
toolVars == <<saveVars, psdVars, rowVars, editVars>>
splitVars == <<sp_fn, sp_cancel, sp_interval, sp_pre_img, sp_version, sp_digits, sp_w, sp_h, sp_arg, sp_points, sp_platform, sp_pc, sp_seq, sp_i,
               sp_img, sp_probe, sp_slices, sp_crops, sp_progress, sp_error>>
mergeVars == <<mg_files, mg_platform, mg_pc, mg_i, mg_info, mg_total_height,
               mg_max_width, mg_cancel, mg_canvas, mg_y_offset, mg_pastes,
               mg_chunk_y, mg_temp_files, mg_disk, mg_next_temp, mg_output,
               mg_progress, mg_result, mg_observed>>
cacheVars == <<cache, max_size_mb, current_size_mb, ca_clock, ca_evicted, ca_last,
               ca_returned, threads, closed>>
vars == <<splitVars, mergeVars, cacheVars, toolVars>>

(***************************************************************************)
(* Bounds of the model.                                                    *)
(***************************************************************************)
MaxH == 4
MaxPoints == 3
MaxFiles == 3
MaxGets == 4
MaxThreadGets == 2

(***************************************************************************)
(* Helpers.                                                                *)
(***************************************************************************)
RECURSIVE SeqsUpTo(_, _)
SeqsUpTo(S, n) ==
    IF n = 0 THEN {<<>>}
    ELSE LET shorter == SeqsUpTo(S, n - 1)
         IN  shorter \cup {Append(s, x) : s \in {t \in shorter : Len(t) = n - 1}, x \in S}

Range(s) == {s[k] : k \in DOMAIN s}

SetMin(S) == CHOOSE x \in S : \A y \in S : x <= y

RECURSIVE SortedSeqOf(_)
SortedSeqOf(S) ==
    IF S = {} THEN <<>>
    ELSE LET m == SetMin(S) IN <<m>> \o SortedSeqOf(S \ {m})

RECURSIVE SumSeq(_)
SumSeq(s) == IF s = <<>> THEN 0 ELSE Head(s) + SumSeq(Tail(s))

Max(a, b) == IF a >= b THEN a ELSE b
Min(a, b) == IF a <= b THEN a ELSE b

(***************************************************************************)
(* Encoder, as far as the callers below depend on it.                      *)
(*   PLATFORM_SPECS is not defined anywhere in the module, so evaluating   *)
(*   "platform in PLATFORM_SPECS" raises NameError whenever a platform     *)
(*   name is passed; the except clause of save_image_with_quality turns    *)
(*   that into an Exception.  Without a platform the encode ends as the    *)
(*   file system lets it end (ioOk).                                       *)
(***************************************************************************)
SaveOutcome(platform, ioOk) ==
    IF platform THEN "name_error"
    ELSE IF ioOk THEN "ok" ELSE "io_error"

(***************************************************************************)
(* Slicer: split_image_at_points and split_image_at_points_custom.         *)
(* The two functions have the same body up to the naming of the slices.    *)
(***************************************************************************)
SplitFns == {"split_image_at_points", "split_image_at_points_custom"}

IntervalFn == "split_image_by_interval"

NoError == [kind |-> "none", slice |-> 0, total |-> 0, cause |-> "none"]

SplitError(kind, cause) == [kind |-> kind, slice |-> 0, total |-> 0, cause |-> cause]

\* f"분할 {i+1}/{total_slices} 처리 중 오류: {e}"
SliceError(i, total_slices, e) ==
    [kind |-> "slice", slice |-> i + 1, total |-> total_slices, cause |-> e]

\* points = sorted(list(set(points)))
NormalizePoints(points) == SortedSeqOf(Range(points))

\* a validation that lets the image's own boundaries 0 and h through
PointsOutOfRangeLax(points, h) ==
    \E k \in DOMAIN points : points[k] < 0 \/ points[k] > h

\* any(p <= 0 or p >= h for p in points)
PointsOutOfRange(points, h) ==
    \E k \in DOMAIN points : points[k] <= 0 \/ points[k] >= h

\* seq = [0] + points + [h]
BoundarySeq(points, h) == <<0>> \o points \o <<h>>

\* a crop that loses the last row of every slice
CropBoxShort(seq, i, w) ==
    [left |-> 0, top |-> seq[i + 1], right |-> w, bottom |-> seq[i + 2] - 1]

\* img.crop((0, seq[i], w, seq[i + 1])) with i counted from 0
CropBox(seq, i, w) ==
    [left |-> 0, top |-> seq[i + 1], right |-> w, bottom |-> seq[i + 2]]

\* progress_callback(i / total_slices * 100), as <<numerator, denominator>>
SplitProgress(i, total_slices) == <<i * 100, total_slices>>

\* the inputs of a split: the decoded height and the points argument
SplitValues == -1 .. (MaxH + 1)

SplitExamples ==
    { [h |-> 5000, points |-> <<1200, 2400, 3600, 4800>>],
      [h |-> 5000, points |-> <<4800, 1200, 3600, 2400, 1200>>],
      [h |-> 12,   points |-> <<1, 2, 3, 4, 5, 6, 7, 8, 9, 10, 11>>] }

SplitInputs ==
    { [h |-> hh, points |-> p] :
        hh \in 1 .. MaxH, p \in SeqsUpTo(SplitValues, MaxPoints) }
    \cup SplitExamples

SplitWidths == {690}

\* the version argument: 0 for the first split of a row, then 1, 2, ...
Versions == {0, 1, 12}

\* "digits: int = 3", and the f"{i:03d}" of split_image_at_points
DefaultDigits == 3

\* the digits a caller of split_image_at_points_custom may pass: the row's
\* combobox offers 2 to 5; with 1 an index of two characters exceeds the width
DigitChoices == {1, 2, 3}

\* the namings tried with an input: all of them with the example plans, the
\* defaults with the enumerated ones
NamingsFor(fn, in) ==
    IF in \in SplitExamples
    THEN { [version |-> v, digits |-> d] :
             v \in Versions,
             d \in IF fn = "split_image_at_points_custom" THEN DigitChoices
                                                            ELSE {DefaultDigits} }
    ELSE { [version |-> 0, digits |-> DefaultDigits] }

\* the inputs of split_image_by_interval: the decoded height and the interval
IntervalInputs ==
    { [h |-> hh, interval |-> iv] : hh \in 1 .. MaxH, iv \in SplitValues }
    \cup { [h |-> 5000, interval |-> 1200] }

\* points = list(range(interval, h, interval)), for 0 < interval < h
IntervalPoints(interval, h) ==
    [k \in 1 .. ((h - 1) \div interval) |-> k * interval]

\* the decimal digits of n >= 0, most significant first
RECURSIVE DecimalDigits(_)
DecimalDigits(n) ==
    IF n < 10 THEN <<n>> ELSE Append(DecimalDigits(n \div 10), n % 10)

\* f"{n:0{width}d}": zero-padded on the left to at least width characters
RECURSIVE ZeroPad(_, _)
ZeroPad(n, width) ==
    LET d == DecimalDigits(n)
    IN  IF Len(d) >= width THEN d ELSE <<0>> \o ZeroPad(n, width - 1)

\* a name that leaves the version out
SliceNameUnversioned(fn, version, i, digits) ==
    <<"base", "_">> \o ZeroPad(i, digits) \o <<"ext">>

\* name = f"{base_name}_{i:0{digits}d}{ext}" if version == 0
\*        else f"{base_name}_v{version:03d}_{i:0{digits}d}{ext}";
\* split_image_at_points writes the same with 03d in the place of 0{digits}d
SliceName(fn, version, i, digits) ==
    LET width == IF fn = "split_image_at_points_custom" THEN digits ELSE DefaultDigits
    IN  IF version = 0
        THEN <<"base", "_">> \o ZeroPad(i, width) \o <<"ext">>
        ELSE <<"base", "_", "v">> \o ZeroPad(version, 3) \o <<"_">>
                 \o ZeroPad(i, width) \o <<"ext">>

SplitIdle ==
    /\ sp_fn = "none" /\ sp_cancel = FALSE /\ sp_interval = 0 /\ sp_pre_img = "none"
    /\ sp_version = 0 /\ sp_digits = 0 /\ sp_w = 0 /\ sp_h = 0 /\ sp_arg = <<>> /\ sp_points = <<>>
    /\ sp_platform = FALSE /\ sp_pc = "idle" /\ sp_seq = <<>> /\ sp_i = 0
    /\ sp_img = "none" /\ sp_probe = "absent" /\ sp_slices = <<>>
    /\ sp_crops = 0 /\ sp_progress = <<>> /\ sp_error = NoError

\* a call of split_image_at_points or split_image_at_points_custom
SplitStartAtPoints ==
    /\ \E fn \in SplitFns, in \in SplitInputs, ww \in SplitWidths, plat \in BOOLEAN :
         /\ sp_fn = fn /\ sp_w = ww /\ sp_h = in.h
         /\ sp_arg = in.points /\ sp_points = in.points
         /\ sp_platform = plat
         /\ \E nm \in NamingsFor(fn, in) :
              sp_version = nm.version /\ sp_digits = nm.digits
    /\ sp_interval = 0
    /\ sp_pc = "check_src"

\* a call of split_image_by_interval
SplitStartByInterval ==
    /\ sp_fn = IntervalFn
    /\ \E in \in IntervalInputs, ww \in SplitWidths, plat \in BOOLEAN :
         /\ sp_w = ww /\ sp_h = in.h /\ sp_interval = in.interval
         /\ sp_platform = plat
    /\ sp_version \in Versions /\ sp_digits = DefaultDigits
    /\ sp_arg = <<>> /\ sp_points = <<>>
    /\ sp_pc = "interval"

SplitStart ==
    /\ (SplitStartAtPoints \/ SplitStartByInterval)
    /\ sp_cancel = FALSE
    /\ sp_pre_img = "none" /\ sp_seq = <<>> /\ sp_i = 0
    /\ sp_img = "none" /\ sp_probe = "absent" /\ sp_slices = <<>>
    /\ sp_crops = 0 /\ sp_progress = <<>> /\ sp_error = NoError

\* the except clause of the function body: messagebox.showerror(...)
SplitFail(err) ==
    /\ sp_error' = err
    /\ sp_pc' = "done"

\* ProgressDialog.cancel: the user presses the dialog's button while the
\* worker runs.  None of the split functions takes the event as a parameter
\* and none of the actions below reads it.
SplitSetCancel ==
    /\ sp_pc \notin {"idle", "done"}
    /\ ~sp_cancel
    /\ sp_cancel' = TRUE
    /\ UNCHANGED <<sp_fn, sp_interval, sp_pre_img, sp_version, sp_digits, sp_w, sp_h,
                   sp_arg, sp_points, sp_platform, sp_pc, sp_seq, sp_i, sp_img,
                   sp_probe, sp_slices, sp_crops, sp_progress, sp_error>>
    /\ UNCHANGED <<mergeVars, cacheVars, toolVars>>

\* split_image_by_interval: the check of the interval and out.mkdir(...)
IntervalBegin ==
    /\ sp_pc = "interval"
    /\ IF sp_interval <= 0
       THEN SplitFail(SplitError("interval", "not_positive"))
       ELSE \E made \in BOOLEAN :
              IF made
              THEN sp_pc' = "interval_open" /\ UNCHANGED sp_error
              ELSE SplitFail(SplitError("output", "mkdir_failed"))
    /\ UNCHANGED <<sp_fn, sp_cancel, sp_interval, sp_pre_img, sp_version, sp_digits, sp_w, sp_h,
                   sp_arg, sp_points, sp_platform, sp_seq, sp_i, sp_img, sp_probe,
                   sp_slices, sp_crops, sp_progress>>
    /\ UNCHANGED <<mergeVars, cacheVars, toolVars>>

\* split_image_by_interval: img = load_psd_image(src) or Image.open(src)
IntervalOpen ==
    /\ sp_pc = "interval_open"
    /\ \E ok \in BOOLEAN :
         IF ok
         THEN sp_pre_img' = "open" /\ sp_pc' = "interval_points" /\ UNCHANGED sp_error
         ELSE sp_pre_img' = "none" /\ SplitFail(SplitError("decode", "open_failed"))
    /\ UNCHANGED <<sp_fn, sp_cancel, sp_interval, sp_version, sp_digits, sp_w, sp_h,
                   sp_arg, sp_points, sp_platform, sp_seq, sp_i, sp_img, sp_probe,
                   sp_slices, sp_crops, sp_progress>>
    /\ UNCHANGED <<mergeVars, cacheVars, toolVars>>

\* split_image_by_interval: the check against h, the points, img.close() and
\* the call of split_image_at_points
IntervalCall ==
    /\ sp_pc = "interval_points"
    /\ IF sp_interval >= sp_h
       THEN /\ SplitFail(SplitError("interval", "not_below_height"))
            /\ UNCHANGED <<sp_arg, sp_points, sp_pre_img>>
       ELSE /\ sp_arg' = IntervalPoints(sp_interval, sp_h)
            /\ sp_points' = IntervalPoints(sp_interval, sp_h)
            /\ sp_pre_img' = "closed"
            /\ sp_pc' = "check_src"
            /\ UNCHANGED sp_error
    /\ UNCHANGED <<sp_fn, sp_cancel, sp_interval, sp_version, sp_digits, sp_w, sp_h,
                   sp_platform, sp_seq, sp_i, sp_img, sp_probe,
                   sp_slices, sp_crops, sp_progress>>
    /\ UNCHANGED <<mergeVars, cacheVars, toolVars>>

\* src.exists(), src.is_file(), src.stat().st_size == 0
SplitCheckSource ==
    /\ sp_pc = "check_src"
    /\ \E src \in {"ok", "missing", "not_a_file", "empty"} :
         IF src = "ok"
         THEN sp_pc' = "probe" /\ UNCHANGED sp_error
         ELSE SplitFail(SplitError("input", src))
    /\ UNCHANGED <<sp_fn, sp_cancel, sp_interval, sp_pre_img, sp_version, sp_digits, sp_w, sp_h, sp_arg, sp_points, sp_platform, sp_seq, sp_i,
                   sp_img, sp_probe, sp_slices, sp_crops, sp_progress>>
    /\ UNCHANGED <<mergeVars, cacheVars, toolVars>>

\* out.mkdir(...); test_file.write_text('test'); test_file.unlink()
SplitProbe ==
    /\ sp_pc = "probe"
    /\ \E dir \in {"ok", "mkdir_failed", "write_denied", "unlink_failed"} :
         CASE dir = "ok" ->
                /\ sp_probe' = "deleted" /\ sp_pc' = "open" /\ UNCHANGED sp_error
           [] dir = "unlink_failed" ->
                /\ sp_probe' = "present"
                /\ SplitFail(SplitError("output", dir))
           [] OTHER ->
                /\ sp_probe' = "absent"
                /\ SplitFail(SplitError("output", dir))
    /\ UNCHANGED <<sp_fn, sp_cancel, sp_interval, sp_pre_img, sp_version, sp_digits, sp_w, sp_h, sp_arg, sp_points, sp_platform, sp_seq, sp_i,
                   sp_img, sp_slices, sp_crops, sp_progress>>
    /\ UNCHANGED <<mergeVars, cacheVars, toolVars>>

\* img = load_psd_image(src) or Image.open(src); w, h = img.size
SplitOpen ==
    /\ sp_pc = "open"
    /\ \E ok \in BOOLEAN :
         IF ok
         THEN sp_img' = "open" /\ sp_pc' = "validate" /\ UNCHANGED sp_error
         ELSE sp_img' = "none" /\ SplitFail(SplitError("decode", "open_failed"))
    /\ UNCHANGED <<sp_fn, sp_cancel, sp_interval, sp_pre_img, sp_version, sp_digits, sp_w, sp_h, sp_arg, sp_points, sp_platform, sp_seq, sp_i,
                   sp_probe, sp_slices, sp_crops, sp_progress>>
    /\ UNCHANGED <<mergeVars, cacheVars, toolVars>>

\* normalisation and validation of the points, then seq
SplitValidate ==
    /\ sp_pc = "validate"
    /\ LET pts == NormalizePoints(sp_points)
       IN  /\ sp_points' = pts
           /\ IF PointsOutOfRange(pts, sp_h)
              THEN /\ SplitFail(SplitError("cut_plan", "out_of_range"))
                   /\ UNCHANGED sp_seq
              ELSE /\ sp_seq' = BoundarySeq(pts, sp_h)
                   /\ sp_pc' = "loop"
                   /\ UNCHANGED sp_error
    /\ UNCHANGED <<sp_fn, sp_cancel, sp_interval, sp_pre_img, sp_version, sp_digits, sp_w, sp_h, sp_arg, sp_platform, sp_i, sp_img, sp_probe,
                   sp_slices, sp_crops, sp_progress>>
    /\ UNCHANGED <<mergeVars, cacheVars, toolVars>>

\* a loop that reports a failed slice and goes on with the next one
SplitSliceContinues ==
    /\ sp_pc = "loop"
    /\ LET total_slices == Len(sp_seq) - 1
           next_pc      == IF sp_i + 1 < total_slices THEN "loop" ELSE "finish"
       IN  /\ sp_i < total_slices
           /\ sp_progress' = Append(sp_progress, SplitProgress(sp_i, total_slices))
           /\ sp_i' = sp_i + 1
           /\ sp_pc' = next_pc
           /\ \E cropOk \in BOOLEAN, ioOk \in BOOLEAN :
                IF ~cropOk
                THEN /\ sp_error' = SliceError(sp_i, total_slices, "crop_failed")
                     /\ UNCHANGED <<sp_slices, sp_crops>>
                ELSE /\ sp_crops' = sp_crops + 1
                     /\ LET saved == SaveOutcome(sp_platform, ioOk)
                        IN  IF saved = "ok"
                            THEN /\ sp_slices' = Append(sp_slices,
                                        [index |-> sp_i, box |-> CropBox(sp_seq, sp_i, sp_w),
                                         name |-> SliceName(sp_fn, sp_version, sp_i, sp_digits)])
                                 /\ UNCHANGED sp_error
                            ELSE /\ sp_error' = SliceError(sp_i, total_slices, saved)
                                 /\ UNCHANGED sp_slices
    /\ UNCHANGED <<sp_fn, sp_cancel, sp_interval, sp_pre_img, sp_version, sp_digits, sp_w, sp_h, sp_arg, sp_points, sp_platform, sp_seq, sp_img, sp_probe>>
    /\ UNCHANGED <<mergeVars, cacheVars, toolVars>>

\* one turn of "for i in range(total_slices)"
SplitSlice ==
    /\ sp_pc = "loop"
    /\ LET total_slices == Len(sp_seq) - 1
       IN  /\ sp_i < total_slices
           /\ sp_progress' = Append(sp_progress, SplitProgress(sp_i, total_slices))
           /\ \E cropOk \in BOOLEAN, ioOk \in BOOLEAN :
                IF ~cropOk
                THEN /\ SplitFail(SliceError(sp_i, total_slices, "crop_failed"))
                     /\ UNCHANGED <<sp_i, sp_slices, sp_crops>>
                ELSE /\ sp_crops' = sp_crops + 1
                     /\ LET saved == SaveOutcome(sp_platform, ioOk)
                        IN  IF saved = "ok"
                            THEN /\ sp_slices' = Append(sp_slices,
                                        [index |-> sp_i, box |-> CropBox(sp_seq, sp_i, sp_w),
                                         name |-> SliceName(sp_fn, sp_version, sp_i, sp_digits)])
                                 /\ sp_i' = sp_i + 1
                                 /\ sp_pc' = IF sp_i + 1 < total_slices THEN "loop" ELSE "finish"
                                 /\ UNCHANGED sp_error
                            ELSE /\ SplitFail(SliceError(sp_i, total_slices, saved))
                                 /\ UNCHANGED <<sp_i, sp_slices>>
    /\ UNCHANGED <<sp_fn, sp_cancel, sp_interval, sp_pre_img, sp_version, sp_digits, sp_w, sp_h, sp_arg, sp_points, sp_platform, sp_seq, sp_img, sp_probe>>
    /\ UNCHANGED <<mergeVars, cacheVars, toolVars>>

\* img.close(); progress_callback(100)
SplitFinish ==
    /\ sp_pc = "finish"
    /\ sp_img' = "closed"
    /\ sp_progress' = Append(sp_progress, <<100, 1>>)
    /\ sp_pc' = "done"
    /\ UNCHANGED <<sp_fn, sp_cancel, sp_interval, sp_pre_img, sp_version, sp_digits, sp_w, sp_h, sp_arg, sp_points, sp_platform, sp_seq, sp_i,
                   sp_probe, sp_slices, sp_crops, sp_error>>
    /\ UNCHANGED <<mergeVars, cacheVars, toolVars>>

SplitNext ==
    \/ IntervalBegin
    \/ IntervalOpen
    \/ IntervalCall
    \/ SplitCheckSource
    \/ SplitProbe
    \/ SplitOpen
    \/ SplitValidate
    \/ SplitSlice
    \/ SplitFinish


(***************************************************************************)
(* Merger: merge_images_advanced and _merge_images_streaming.              *)
(***************************************************************************)
PIL_MAX_PIXELS == 2147483647

\* chunk_height = 1000
chunk_height == 1000

\* use_streaming = estimated_memory_mb > 1000, with
\* estimated_memory_mb = (total_pixels * 4) / (1024 * 1024): the footprint
\* exceeds 1000 MiB exactly when total_pixels exceeds 1000 * 2^20 / 4.
StreamingPixels == 262144000

\* max_width * total_height > limit, for max_width >= 1, without forming the
\* product (Python integers do not overflow; the product may exceed 32 bits)
ProductExceeds(max_width, total_height, limit) ==
    total_height > limit \div max_width

\* a check that also refuses a product equal to the ceiling
PixelLimitExceededAtCeiling(max_width, total_height) ==
    ProductExceeds(max_width, total_height, PIL_MAX_PIXELS - 1)

\* total_pixels > PIL_MAX_PIXELS
PixelLimitExceeded(max_width, total_height) ==
    ProductExceeds(max_width, total_height, PIL_MAX_PIXELS)

\* a choice that streams a composite of exactly 1000 MiB as well
UseStreamingAtThreshold(max_width, total_height) ==
    ProductExceeds(max_width, total_height, StreamingPixels - 1)

\* use_streaming = estimated_memory_mb > 1000
UseStreaming(max_width, total_height) ==
    ProductExceeds(max_width, total_height, StreamingPixels)

\* no centring: every image pasted at the left edge
CenterXLeft(max_width, width) == 0

\* x_offset = (max_width - img.width) // 2
CenterX(max_width, width) == (max_width - width) \div 2

\* chunk_bottom = min(y + chunk_height, img_height)
ChunkBottom(y, img_height) == Min(y + chunk_height, img_height)

\* a chunk placed by its row within its own image only
ChunkYLocal(y_offset, y) == y

\* the y_pos recorded with a chunk: y_offset + y
ChunkY(y_offset, y) == y_offset + y

\* a loop's check "cancel_event and cancel_event.is_set()"
IsCancelledIgnored(flag) == FALSE

IsCancelled(flag) == flag

\* an enumeration that walks task.files from its end
InputAtReversed(files, i) == files[Len(files) - i]

\* "for i, fp in enumerate(task.files)": the fp of turn i
InputAt(files, i) == files[i + 1]

\* progress_callback(i / len(task.files) * 20), as <<numerator, denominator>>
DescribeProgress(i, n) == <<i * 20, n>>

\* a compositing pass that counts up to 100: it reports completion when the
\* last input is pasted, before the composite is encoded
CompositeProgressToFull(i, n) == <<(i + 1) * 100, n>>

\* progress_callback(20 + (i + 1) / len(task.files) * 70)
CompositeProgress(i, n) == <<20 * n + (i + 1) * 70, n>>

\* progress_callback(20 + (i + 1) / len(task.files) * 60)
SpillProgress(i, n) == <<20 * n + (i + 1) * 60, n>>

\* the input files of a merge, by their dimensions
MergeFileKinds ==
    { [w |-> 600,   h |-> 1000],
      [w |-> 800,   h |-> 1500],
      [w |-> 600,   h |-> 800],
      [w |-> 801,   h |-> 2000],
      [w |-> 60000, h |-> 2500],
      [w |-> 60000, h |-> 36000],
      \* 64000 * 4096 = 262,144,000 pixels: exactly 1000 MiB at 4 bytes each
      [w |-> 64000, h |-> 4096],
      \* one row of 2^31 - 1 pixels: 2^31 - 1 is prime, so this descriptor is
      \* the one for which max_width * total_height equals PIL_MAX_PIXELS
      [w |-> 2147483647, h |-> 1] }

NoCanvas == [state |-> "none", w |-> 0, h |-> 0]
NoOutput == [written |-> FALSE, w |-> 0, h |-> 0, pastes |-> 0]
Running  == [kind |-> "running", at |-> "none", file |-> -1, cause |-> "none"]

MergeEnded(kind, at, file, cause) ==
    [kind |-> kind, at |-> at, file |-> file, cause |-> cause]

\* the input (counted from 0) that the message of a raised error names, or -1:
\*   f"... {fp}" of the descriptor pass and f"... ({fp.name}): {e}" of the
\*   compositing pass name the input; _merge_images_streaming has no except
\*   clause, so what it raises is the library's own exception: Image.open's
\*   carries the path it was given, the decoder's (raised inside img.crop)
\*   and the temporary file's do not
NamedInMessage(result) ==
    CASE result.kind = "error" /\ result.at \in {"describe", "composite"} -> result.file
      [] result.kind = "error" /\ result.at = "spill"
                               /\ result.cause = "decode_failed" -> result.file
      [] OTHER -> -1

MergeIdle ==
    /\ mg_files = <<>> /\ mg_platform = FALSE /\ mg_pc = "idle" /\ mg_i = 0
    /\ mg_info = <<>> /\ mg_total_height = 0 /\ mg_max_width = 0
    /\ mg_cancel = FALSE /\ mg_canvas = NoCanvas /\ mg_y_offset = 0
    /\ mg_pastes = <<>> /\ mg_chunk_y = 0 /\ mg_temp_files = <<>>
    /\ mg_disk = {} /\ mg_next_temp = 1 /\ mg_output = NoOutput
    /\ mg_progress = <<>> /\ mg_result = Running /\ mg_observed = "none"

MergeStart ==
    /\ mg_files \in SeqsUpTo(MergeFileKinds, MaxFiles)
    /\ mg_platform \in BOOLEAN
    /\ mg_pc = "begin" /\ mg_i = 0
    /\ mg_info = <<>> /\ mg_total_height = 0 /\ mg_max_width = 0
    /\ mg_cancel = FALSE /\ mg_canvas = NoCanvas /\ mg_y_offset = 0
    /\ mg_pastes = <<>> /\ mg_chunk_y = 0 /\ mg_temp_files = <<>>
    /\ mg_disk = {} /\ mg_next_temp = 1 /\ mg_output = NoOutput
    /\ mg_progress = <<>> /\ mg_result = Running /\ mg_observed = "none"

\* the worker's caller sets the flag at any moment (ProgressDialog.cancel)
SetCancel ==
    /\ mg_pc \notin {"idle", "done"}
    /\ ~mg_cancel
    /\ mg_cancel' = TRUE
    /\ UNCHANGED <<mg_files, mg_platform, mg_pc, mg_i, mg_info, mg_total_height,
                   mg_max_width, mg_canvas, mg_y_offset, mg_pastes, mg_chunk_y,
                   mg_temp_files, mg_disk, mg_next_temp, mg_output, mg_progress,
                   mg_result, mg_observed>>
    /\ UNCHANGED <<splitVars, cacheVars, toolVars>>

\* "if not task.files: return", then the initialisations
MergeBegin ==
    /\ mg_pc = "begin"
    /\ IF mg_files = <<>>
       THEN /\ mg_pc' = "done"
            /\ mg_result' = MergeEnded("empty", "begin", -1, "none")
       ELSE /\ mg_pc' = "describe"
            /\ UNCHANGED mg_result
    /\ UNCHANGED <<mg_files, mg_platform, mg_i, mg_info, mg_total_height,
                   mg_max_width, mg_cancel, mg_canvas, mg_y_offset, mg_pastes,
                   mg_chunk_y, mg_temp_files, mg_disk, mg_next_temp, mg_output,
                   mg_progress, mg_observed>>
    /\ UNCHANGED <<splitVars, cacheVars, toolVars>>

\* one turn of the descriptor loop
MergeDescribe ==
    /\ mg_pc = "describe"
    /\ LET n  == Len(mg_files)
           fp == InputAt(mg_files, mg_i)
       IN  IF IsCancelled(mg_cancel)
           THEN /\ mg_observed' = "describe"
                /\ mg_result' = MergeEnded("cancelled", "describe", mg_i, "none")
                /\ mg_pc' = "done"
                /\ UNCHANGED <<mg_i, mg_info, mg_total_height, mg_max_width, mg_progress>>
           ELSE \E described \in BOOLEAN :
                  IF ~described
                  THEN /\ mg_result' = MergeEnded("error", "describe", mg_i, "no_info")
                       /\ mg_pc' = "done"
                       /\ UNCHANGED <<mg_i, mg_info, mg_total_height, mg_max_width,
                                      mg_progress, mg_observed>>
                  ELSE /\ mg_info' = Append(mg_info, fp)
                       /\ mg_total_height' = mg_total_height + fp.h
                       /\ mg_max_width' = Max(mg_max_width, fp.w)
                       /\ mg_progress' = Append(mg_progress, DescribeProgress(mg_i, n))
                       /\ mg_i' = IF mg_i + 1 < n THEN mg_i + 1 ELSE 0
                       /\ mg_pc' = IF mg_i + 1 < n THEN "describe" ELSE "plan"
                       /\ UNCHANGED <<mg_result, mg_observed>>
    /\ UNCHANGED <<mg_files, mg_platform, mg_cancel, mg_canvas, mg_y_offset,
                   mg_pastes, mg_chunk_y, mg_temp_files, mg_disk, mg_next_temp,
                   mg_output>>
    /\ UNCHANGED <<splitVars, cacheVars, toolVars>>

\* the size checks, the choice of the path and the allocation of merged
MergePlan ==
    /\ mg_pc = "plan"
    /\ IF PixelLimitExceeded(mg_max_width, mg_total_height)
       THEN /\ mg_result' = MergeEnded("error", "plan", -1, "pixel_limit")
            /\ mg_pc' = "done"
            /\ UNCHANGED mg_canvas
       ELSE IF UseStreaming(mg_max_width, mg_total_height)
       THEN /\ mg_pc' = "spill_open"
            /\ UNCHANGED <<mg_result, mg_canvas>>
       ELSE IF mg_platform
       THEN /\ mg_result' = MergeEnded("error", "plan", -1, "name_error")
            /\ mg_pc' = "done"
            /\ UNCHANGED mg_canvas
       ELSE \E allocated \in BOOLEAN :
              IF allocated
              THEN /\ mg_canvas' = [state |-> "open", w |-> mg_max_width,
                                    h |-> mg_total_height]
                   /\ mg_pc' = "composite"
                   /\ UNCHANGED mg_result
              ELSE /\ mg_result' = MergeEnded("error", "plan", -1, "alloc_failed")
                   /\ mg_pc' = "done"
                   /\ UNCHANGED mg_canvas
    /\ mg_y_offset' = 0
    /\ UNCHANGED <<mg_files, mg_platform, mg_i, mg_info, mg_total_height,
                   mg_max_width, mg_cancel, mg_pastes, mg_chunk_y, mg_temp_files,
                   mg_disk, mg_next_temp, mg_output, mg_progress, mg_observed>>
    /\ UNCHANGED <<splitVars, cacheVars, toolVars>>

\* one turn of the compositing loop of the in-memory path
MergeComposite ==
    /\ mg_pc = "composite"
    /\ LET n  == Len(mg_files)
           fp == InputAt(mg_files, mg_i)
       IN  IF IsCancelled(mg_cancel)
           THEN /\ mg_observed' = "composite"
                /\ mg_canvas' = [mg_canvas EXCEPT !.state = "closed"]
                /\ mg_result' = MergeEnded("cancelled", "composite", mg_i, "none")
                /\ mg_pc' = "done"
                /\ UNCHANGED <<mg_i, mg_pastes, mg_y_offset, mg_progress>>
           ELSE \E decoded \in BOOLEAN :
                  IF ~decoded
                  THEN /\ mg_canvas' = [mg_canvas EXCEPT !.state = "closed"]
                       /\ mg_result' = MergeEnded("error", "composite", mg_i, "decode_failed")
                       /\ mg_pc' = "done"
                       /\ UNCHANGED <<mg_i, mg_pastes, mg_y_offset, mg_progress,
                                      mg_observed>>
                  ELSE /\ mg_pastes' = Append(mg_pastes,
                              [file |-> mg_i, src_y |-> 0,
                               x |-> CenterX(mg_max_width, fp.w), y |-> mg_y_offset,
                               w |-> fp.w, h |-> fp.h])
                       /\ mg_y_offset' = mg_y_offset + fp.h
                       /\ mg_progress' = Append(mg_progress, CompositeProgress(mg_i, n))
                       /\ mg_i' = IF mg_i + 1 < n THEN mg_i + 1 ELSE 0
                       /\ mg_pc' = IF mg_i + 1 < n THEN "composite" ELSE "save"
                       /\ UNCHANGED <<mg_canvas, mg_result, mg_observed>>
    /\ UNCHANGED <<mg_files, mg_platform, mg_info, mg_total_height, mg_max_width,
                   mg_cancel, mg_chunk_y, mg_temp_files, mg_disk, mg_next_temp,
                   mg_output>>
    /\ UNCHANGED <<splitVars, cacheVars, toolVars>>

\* the encode of the in-memory composite, and "finally: merged.close()"
MergeSave ==
    /\ mg_pc = "save"
    /\ \E ioOk \in BOOLEAN :
         LET saved == SaveOutcome(mg_platform, ioOk)
         IN  IF saved = "ok"
             THEN /\ mg_output' = [written |-> TRUE, w |-> mg_canvas.w,
                                   h |-> mg_canvas.h, pastes |-> Len(mg_pastes)]
                  /\ mg_progress' = Append(mg_progress, <<100, 1>>)
                  /\ mg_result' = MergeEnded("ok", "save", -1, "none")
             ELSE /\ mg_result' = MergeEnded("error", "save", -1, saved)
                  /\ UNCHANGED <<mg_output, mg_progress>>
    /\ mg_canvas' = [mg_canvas EXCEPT !.state = "closed"]
    /\ mg_pc' = "done"
    /\ UNCHANGED <<mg_files, mg_platform, mg_i, mg_info, mg_total_height,
                   mg_max_width, mg_cancel, mg_y_offset, mg_pastes, mg_chunk_y,
                   mg_temp_files, mg_disk, mg_next_temp, mg_observed>>
    /\ UNCHANGED <<splitVars, cacheVars, toolVars>>


\* "finally": Path(temp_path).unlink() for every entry of temp_files
UnlinkListed(temp_files, disk) ==
    disk \ {temp_files[k].name : k \in DOMAIN temp_files}

\* top of one turn of the spill loop: the cancellation check and Image.open(fp)
StreamOpen ==
    /\ mg_pc = "spill_open"
    /\ IF IsCancelled(mg_cancel)
       THEN /\ mg_observed' = "spill"
            /\ mg_result' = MergeEnded("cancelled", "spill", mg_i, "none")
            /\ mg_disk' = UnlinkListed(mg_temp_files, mg_disk)
            /\ mg_pc' = "done"
            /\ UNCHANGED mg_chunk_y
       ELSE \E opened \in BOOLEAN :
              IF opened
              THEN /\ mg_chunk_y' = 0
                   /\ mg_pc' = "spill_chunk"
                   /\ UNCHANGED <<mg_result, mg_disk, mg_observed>>
              ELSE /\ mg_result' = MergeEnded("error", "spill", mg_i, "decode_failed")
                   /\ mg_disk' = UnlinkListed(mg_temp_files, mg_disk)
                   /\ mg_pc' = "done"
                   /\ UNCHANGED <<mg_chunk_y, mg_observed>>
    /\ UNCHANGED <<mg_files, mg_platform, mg_i, mg_info, mg_total_height,
                   mg_max_width, mg_cancel, mg_canvas, mg_y_offset, mg_pastes,
                   mg_temp_files, mg_next_temp, mg_output, mg_progress>>
    /\ UNCHANGED <<splitVars, cacheVars, toolVars>>

\* one turn of "for y in range(0, img_height, chunk_height)"; after the last
\* chunk of a file, the rest of the turn of the spill loop
StreamChunk ==
    /\ mg_pc = "spill_chunk"
    /\ LET n          == Len(mg_files)
           fp         == InputAt(mg_files, mg_i)
           img_height == fp.h
           y          == mg_chunk_y
           chunk      == [w |-> fp.w, h |-> ChunkBottom(y, img_height) - y]
           lastChunk  == y + chunk_height >= img_height
       IN  \E step \in {"ok", "crop_failed", "tempfile_failed", "save_failed"} :
             CASE step = "ok" ->
                    /\ mg_temp_files' = Append(mg_temp_files,
                           [name |-> mg_next_temp, width |-> chunk.w,
                            height |-> chunk.h, y_pos |-> ChunkY(mg_y_offset, y),
                            file |-> mg_i, src_y |-> y])
                    /\ mg_disk' = mg_disk \cup {mg_next_temp}
                    /\ mg_next_temp' = mg_next_temp + 1
                    /\ IF lastChunk
                       THEN /\ mg_y_offset' = mg_y_offset + img_height
                            /\ mg_progress' = Append(mg_progress, SpillProgress(mg_i, n))
                            /\ mg_i' = IF mg_i + 1 < n THEN mg_i + 1 ELSE 0
                            /\ mg_pc' = IF mg_i + 1 < n THEN "spill_open" ELSE "assemble"
                            /\ mg_chunk_y' = 0
                       ELSE /\ mg_chunk_y' = y + chunk_height
                            /\ UNCHANGED <<mg_y_offset, mg_progress, mg_i, mg_pc>>
                    /\ UNCHANGED mg_result
               [] step = "save_failed" ->
                    \* NamedTemporaryFile(delete=False) has created the file;
                    \* chunk.save raises before temp_files.append
                    /\ mg_disk' = UnlinkListed(mg_temp_files, mg_disk \cup {mg_next_temp})
                    /\ mg_next_temp' = mg_next_temp + 1
                    /\ mg_result' = MergeEnded("error", "spill", mg_i, step)
                    /\ mg_pc' = "done"
                    /\ UNCHANGED <<mg_temp_files, mg_y_offset, mg_progress, mg_i, mg_chunk_y>>
               [] OTHER ->
                    /\ mg_disk' = UnlinkListed(mg_temp_files, mg_disk)
                    /\ mg_result' = MergeEnded("error", "spill", mg_i, step)
                    /\ mg_pc' = "done"
                    /\ UNCHANGED <<mg_temp_files, mg_next_temp, mg_y_offset,
                                   mg_progress, mg_i, mg_chunk_y>>
    /\ UNCHANGED <<mg_files, mg_platform, mg_info, mg_total_height, mg_max_width,
                   mg_cancel, mg_canvas, mg_pastes, mg_output, mg_observed>>
    /\ UNCHANGED <<splitVars, cacheVars, toolVars>>

\* final_img = Image.new(mode, (max_width, total_height), ...)
StreamAssemble ==
    /\ mg_pc = "assemble"
    /\ \E allocated \in BOOLEAN :
         IF allocated
         THEN /\ mg_canvas' = [state |-> "open", w |-> mg_max_width,
                               h |-> mg_total_height]
              /\ mg_pc' = "paste"
              /\ UNCHANGED <<mg_result, mg_disk>>
         ELSE /\ mg_result' = MergeEnded("error", "assemble", -1, "alloc_failed")
              /\ mg_disk' = UnlinkListed(mg_temp_files, mg_disk)
              /\ mg_pc' = "done"
              /\ UNCHANGED mg_canvas
    /\ mg_i' = 0
    /\ UNCHANGED <<mg_files, mg_platform, mg_info, mg_total_height, mg_max_width,
                   mg_cancel, mg_y_offset, mg_pastes, mg_chunk_y, mg_temp_files,
                   mg_next_temp, mg_output, mg_progress, mg_observed>>
    /\ UNCHANGED <<splitVars, cacheVars, toolVars>>

\* one turn of "for temp_path, width, height, y_pos in temp_files"
StreamPaste ==
    /\ mg_pc = "paste"
    /\ LET t == mg_temp_files[mg_i + 1]
       IN  IF IsCancelled(mg_cancel)
           THEN \* break: control continues at the encode
                /\ mg_observed' = "paste"
                /\ mg_pc' = "stream_save"
                /\ UNCHANGED <<mg_i, mg_pastes, mg_result, mg_disk>>
           ELSE \E opened \in BOOLEAN :
                  IF opened
                  THEN /\ mg_pastes' = Append(mg_pastes,
                              [file |-> t.file, src_y |-> t.src_y,
                               x |-> CenterX(mg_max_width, t.width), y |-> t.y_pos,
                               w |-> t.width, h |-> t.height])
                       /\ mg_i' = mg_i + 1
                       /\ mg_pc' = IF mg_i + 1 < Len(mg_temp_files)
                                   THEN "paste" ELSE "stream_save"
                       /\ UNCHANGED <<mg_result, mg_disk, mg_observed>>
                  ELSE /\ mg_result' = MergeEnded("error", "paste", mg_i, "decode_failed")
                       /\ mg_disk' = UnlinkListed(mg_temp_files, mg_disk)
                       /\ mg_pc' = "done"
                       /\ UNCHANGED <<mg_i, mg_pastes, mg_observed>>
    /\ UNCHANGED <<mg_files, mg_platform, mg_info, mg_total_height, mg_max_width,
                   mg_cancel, mg_canvas, mg_y_offset, mg_chunk_y, mg_temp_files,
                   mg_next_temp, mg_output, mg_progress>>
    /\ UNCHANGED <<splitVars, cacheVars, toolVars>>

\* the encode of final_img, final_img.close(), progress 100, then "finally"
StreamSave ==
    /\ mg_pc = "stream_save"
    /\ \E ioOk \in BOOLEAN :
         LET saved == SaveOutcome(mg_platform, ioOk)
         IN  IF saved = "ok"
             THEN /\ mg_output' = [written |-> TRUE, w |-> mg_canvas.w,
                                   h |-> mg_canvas.h, pastes |-> Len(mg_pastes)]
                  /\ mg_canvas' = [mg_canvas EXCEPT !.state = "closed"]
                  /\ mg_progress' = Append(mg_progress, <<100, 1>>)
                  /\ mg_result' = MergeEnded("ok", "stream_save", -1, "none")
             ELSE /\ mg_result' = MergeEnded("error", "stream_save", -1, saved)
                  /\ UNCHANGED <<mg_output, mg_canvas, mg_progress>>
    /\ mg_disk' = UnlinkListed(mg_temp_files, mg_disk)
    /\ mg_pc' = "done"
    /\ UNCHANGED <<mg_files, mg_platform, mg_i, mg_info, mg_total_height,
                   mg_max_width, mg_cancel, mg_y_offset, mg_pastes, mg_chunk_y,
                   mg_temp_files, mg_next_temp, mg_observed>>
    /\ UNCHANGED <<splitVars, cacheVars, toolVars>>

MergeNext ==
    \/ SetCancel
    \/ MergeBegin
    \/ MergeDescribe
    \/ MergePlan
    \/ MergeComposite
    \/ MergeSave
    \/ StreamOpen
    \/ StreamChunk
    \/ StreamAssemble
    \/ StreamPaste
    \/ StreamSave


(***************************************************************************)
(* Decode cache: ImageCache.                                               *)
(*   The code keeps sizes as floats in MiB: bytes / (1024 * 1024).  Every  *)
(*   size is a multiple of 2^-18 MiB far below 2^53, so the floats are     *)
(*   exact; the model holds each *_mb quantity as the number of bytes      *)
(*   (the code's value times 2^20), which keeps every comparison.          *)
(***************************************************************************)
MiB == 1048576

\* "if img_size_mb < 50", in MiB
CacheableBelowMb == 50

\* max_dimension=2000 is what MergePreviewDialog.load_preview passes; 0 is None
MaxDimensions == {0, 2000}

\* the files a get may name, by what decoding them gives
CacheFiles ==
    { [path |-> "a.png", ok |-> TRUE,  w |-> 1024, h |-> 1024, bands |-> 4],
      [path |-> "b.png", ok |-> TRUE,  w |-> 2048, h |-> 1536, bands |-> 3],
      [path |-> "c.png", ok |-> TRUE,  w |-> 1024, h |-> 1024, bands |-> 1],
      [path |-> "d.png", ok |-> TRUE,  w |-> 2048, h |-> 1600, bands |-> 4],
      [path |-> "x.png", ok |-> FALSE, w |-> 0,    h |-> 0,    bands |-> 0] }

\* budgets passed to ImageCache(max_size_mb=...), in MiB; 500 is the default
CacheBudgets == {10, 64, 500}

\* cache_key = f"{path}_{max_dimension}"
CacheKey(path, max_dimension) == <<path, max_dimension>>

\* the resize of get: ratio = max_dimension / max(img.size);
\* new_size = (int(img.width * ratio), int(img.height * ratio))
Decoded(file, max_dimension) ==
    LET big == Max(file.w, file.h)
    IN  IF max_dimension # 0 /\ big > max_dimension
        THEN [w |-> (file.w * max_dimension) \div big,
              h |-> (file.h * max_dimension) \div big,
              bands |-> file.bands]
        ELSE [w |-> file.w, h |-> file.h, bands |-> file.bands]

\* (img.width * img.height * len(img.getbands()) * 4) / (1024 * 1024), times 2^20
ImgSize(img) == img.w * img.h * img.bands * 4

\* img_size_mb < 50
Cacheable(size) == size < CacheableBelowMb * MiB

\* "return None"
NoBuffer == [buf |-> <<0, "none">>, size |-> 0]

\* the buffers made by call number n: the one decoded (and resized) from the
\* file, and the one made by .copy()
DecodedBuffer(n) == <<n, "decoded">>
CopiedBuffer(n) == <<n, "copy">>

\* oldest_key = next(iter(self.cache)): the first key in dict order
OldestIndex(c) == 1

RemoveAt(c, k) == SubSeq(c, 1, k - 1) \o SubSeq(c, k + 1, Len(c))

\* the while loop of _add_to_cache
RECURSIVE EvictLoop(_, _, _, _, _)
EvictLoop(c, cur, size, budget, popped) ==
    IF cur + size > budget /\ c # <<>>
    THEN LET k        == OldestIndex(c)
             old_img  == c[k]
             old_size == ImgSize(old_img)
         IN  EvictLoop(RemoveAt(c, k), cur - old_size, size, budget,
                       Append(popped, old_img))
    ELSE [cache |-> c, cur |-> cur, popped |-> popped]

\* an insertion that adds the new size to the total it started from
AddToCacheForgetsPopped(c, cur, budget, entry, size) ==
    LET r == EvictLoop(c, cur, size, budget, <<>>)
    IN  [cache |-> Append(r.cache, entry), cur |-> cur + size, popped |-> r.popped]

\* _add_to_cache(key, img, size_mb)
AddToCache(c, cur, budget, entry, size) ==
    LET r == EvictLoop(c, cur, size, budget, <<>>)
    IN  [cache |-> Append(r.cache, entry), cur |-> r.cur + size, popped |-> r.popped]

KeyIndex(c, key) ==
    IF \E k \in DOMAIN c : c[k].key = key
    THEN CHOOSE k \in DOMAIN c : c[k].key = key
    ELSE 0

\* a hit that refreshes the entry's place in the dict (eviction by recency)
AfterHitMoveToEnd(c, at, now) ==
    Append(RemoveAt(c, at), [c[at] EXCEPT !.hit = now])

\* a hit reads self.cache[cache_key] and leaves the dict as it is; the entry
\* only notes when it was last read
AfterHit(c, at, now) == [c EXCEPT ![at].hit = now]

\* the threads that call get on the one cache
Threads == {"t1", "t2"}

NoKey == <<"", 0>>

NoEntry == [key |-> NoKey, w |-> 0, h |-> 0, bands |-> 0, buf |-> NoBuffer.buf,
            stamp |-> 0, hit |-> 0]

\* a thread that is not inside get: its locals are gone, calls counts its gets
Outside(calls) ==
    [pc |-> "outside", calls |-> calls, call |-> 0, key |-> NoKey, img |-> NoEntry,
     size |-> 0, oldest_key |-> NoKey, old_img |-> NoEntry]

NoThreads == [t \in Threads |-> Outside(0)]

CacheIdle ==
    /\ cache = <<>> /\ max_size_mb = 0 /\ current_size_mb = 0
    /\ ca_clock = 0 /\ ca_evicted = <<>> /\ ca_last = "none"
    /\ ca_returned = NoBuffer
    /\ threads = NoThreads /\ closed = <<>>

\* __init__(max_size_mb)
CacheStart ==
    /\ cache = <<>>
    /\ \E b \in CacheBudgets : max_size_mb = b * MiB
    /\ current_size_mb = 0
    /\ ca_clock = 0 /\ ca_evicted = <<>> /\ ca_last = "none"
    /\ ca_returned = NoBuffer
    /\ threads = NoThreads /\ closed = <<>>

\* get(path, max_dimension)
CacheGet ==
    /\ ca_clock < MaxGets
    /\ ca_clock' = ca_clock + 1
    /\ \E file \in CacheFiles, max_dimension \in MaxDimensions :
         LET key == CacheKey(file.path, max_dimension)
             at  == KeyIndex(cache, key)
         IN  IF at # 0
             THEN \* return self.cache[cache_key].copy()
                  /\ cache' = AfterHit(cache, at, ca_clock + 1)
                  /\ ca_last' = "hit"
                  /\ ca_returned' = [buf |-> CopiedBuffer(ca_clock + 1),
                                     size |-> ImgSize(cache[at])]
                  /\ ca_evicted' = <<>>
                  /\ UNCHANGED current_size_mb
             ELSE IF ~file.ok
             THEN \* the except clause: return None
                  /\ ca_last' = "load_failed"
                  /\ ca_returned' = NoBuffer
                  /\ ca_evicted' = <<>>
                  /\ UNCHANGED <<cache, current_size_mb>>
             ELSE LET img   == Decoded(file, max_dimension)
                      size  == ImgSize(img)
                      entry == [key |-> key, w |-> img.w, h |-> img.h,
                                bands |-> img.bands,
                                buf |-> CopiedBuffer(ca_clock + 1),
                                stamp |-> ca_clock + 1, hit |-> 0]
                  IN  /\ ca_returned' = [buf |-> DecodedBuffer(ca_clock + 1),
                                         size |-> size]
                      /\ IF Cacheable(size)
                         THEN LET r == AddToCache(cache, current_size_mb,
                                                  max_size_mb, entry, size)
                              IN  /\ cache' = r.cache
                                  /\ current_size_mb' = r.cur
                                  /\ ca_evicted' = r.popped
                                  /\ ca_last' = "inserted"
                         ELSE /\ ca_last' = "not_cached"
                              /\ ca_evicted' = <<>>
                              /\ UNCHANGED <<cache, current_size_mb>>
    /\ UNCHANGED <<max_size_mb, threads, closed>>
    /\ UNCHANGED <<splitVars, mergeVars, toolVars>>

\* clear()
CacheClear ==
    /\ ca_clock < MaxGets
    /\ ca_clock' = ca_clock + 1
    /\ cache' = <<>>
    /\ current_size_mb' = 0
    /\ ca_evicted' = <<>>
    /\ ca_last' = "cleared"
    /\ ca_returned' = NoBuffer
    /\ UNCHANGED <<max_size_mb, threads, closed>>
    /\ UNCHANGED <<splitVars, mergeVars, toolVars>>

CacheNext ==
    \/ CacheGet
    \/ CacheClear

(***************************************************************************)
(* The cache called from more than one thread.  ImageCache holds no lock:  *)
(* a thread may be switched out between any two statements of get and      *)
(* _add_to_cache, and each action below is one statement (or a run of      *)
(* statements that touch only the thread's locals) of one thread.          *)
(***************************************************************************)
\* image_cache.get(f, max_dimension=2000)
PreviewDimension == 2000

\* budgets of the shared cache, in MiB
SharedBudgets == {64, 500}

FileOf(key) == CHOOSE f \in CacheFiles : f.path = key[1]

Return(t) == [threads EXCEPT ![t] = Outside(threads[t].calls)]

At(t, pc) == [threads EXCEPT ![t].pc = pc]

\* cache_key = ...; if cache_key in self.cache: return self.cache[cache_key].copy()
GetEnter ==
    \E t \in Threads, file \in CacheFiles :
        LET th  == threads[t]
            key == CacheKey(file.path, PreviewDimension)
            at  == KeyIndex(cache, key)
            n   == ca_clock + 1
        IN  /\ th.pc = "outside"
            /\ th.calls < MaxThreadGets
            /\ ca_clock' = n
            /\ IF at # 0
               THEN /\ cache' = AfterHit(cache, at, n)
                    /\ threads' = [threads EXCEPT ![t] = Outside(th.calls + 1)]
               ELSE /\ threads' = [threads EXCEPT ![t] =
                           [Outside(th.calls + 1) EXCEPT
                               !.pc = "load", !.call = n, !.key = key]]
                    /\ UNCHANGED cache
            /\ UNCHANGED <<max_size_mb, current_size_mb, ca_evicted, ca_last,
                           ca_returned, closed>>
            /\ UNCHANGED <<splitVars, mergeVars, toolVars>>

\* the load, the resize, img_size_mb and the test "img_size_mb < 50"; the
\* call of _add_to_cache with img.copy(), or the return
GetLoad ==
    \E t \in Threads :
        LET th   == threads[t]
            file == FileOf(th.key)
            img  == Decoded(file, PreviewDimension)
            size == ImgSize(img)
        IN  /\ th.pc = "load"
            /\ IF file.ok /\ Cacheable(size)
               THEN threads' = [threads EXCEPT
                        ![t].pc = "while",
                        ![t].size = size,
                        ![t].img = [key |-> th.key, w |-> img.w, h |-> img.h,
                                    bands |-> img.bands,
                                    buf |-> CopiedBuffer(th.call),
                                    stamp |-> th.call, hit |-> 0]]
               ELSE threads' = Return(t)
            /\ UNCHANGED <<cache, max_size_mb, current_size_mb, ca_clock, ca_evicted,
                           ca_last, ca_returned, closed>>
            /\ UNCHANGED <<splitVars, mergeVars, toolVars>>

\* while self.current_size_mb + size_mb > self.max_size_mb and self.cache:
AddWhile ==
    \E t \in Threads :
        LET th == threads[t]
        IN  /\ th.pc = "while"
            /\ threads' = IF current_size_mb + th.size > max_size_mb /\ cache # <<>>
                          THEN At(t, "pick")
                          ELSE At(t, "insert")
            /\ UNCHANGED <<cache, max_size_mb, current_size_mb, ca_clock, ca_evicted,
                           ca_last, ca_returned, closed>>
            /\ UNCHANGED <<splitVars, mergeVars, toolVars>>

\* oldest_key = next(iter(self.cache)); on an empty dict next raises
\* StopIteration, which the except clause of get turns into "return None"
AddPick ==
    \E t \in Threads :
        LET th == threads[t]
        IN  /\ th.pc = "pick"
            /\ threads' = IF cache = <<>>
                          THEN Return(t)
                          ELSE [threads EXCEPT
                                   ![t].pc = "pop",
                                   ![t].oldest_key = cache[OldestIndex(cache)].key]
            /\ UNCHANGED <<cache, max_size_mb, current_size_mb, ca_clock, ca_evicted,
                           ca_last, ca_returned, closed>>
            /\ UNCHANGED <<splitVars, mergeVars, toolVars>>

\* old_img = self.cache.pop(oldest_key); a key that is gone raises KeyError,
\* which the except clause of get turns into "return None"
AddPop ==
    \E t \in Threads :
        LET th == threads[t]
            at == KeyIndex(cache, th.oldest_key)
        IN  /\ th.pc = "pop"
            /\ IF at = 0
               THEN /\ threads' = Return(t)
                    /\ UNCHANGED <<cache, ca_evicted>>
               ELSE /\ threads' = [threads EXCEPT ![t].pc = "settle",
                                                   ![t].old_img = cache[at]]
                    /\ cache' = RemoveAt(cache, at)
                    /\ ca_evicted' = Append(ca_evicted, cache[at])
            /\ UNCHANGED <<max_size_mb, current_size_mb, ca_clock, ca_last,
                           ca_returned, closed>>
            /\ UNCHANGED <<splitVars, mergeVars, toolVars>>

\* old_size = ...; self.current_size_mb -= old_size; old_img.close()
AddSettle ==
    \E t \in Threads :
        LET th == threads[t]
        IN  /\ th.pc = "settle"
            /\ current_size_mb' = current_size_mb - ImgSize(th.old_img)
            /\ closed' = Append(closed, th.old_img.buf)
            /\ threads' = At(t, "while")
            /\ UNCHANGED <<cache, max_size_mb, ca_clock, ca_evicted, ca_last,
                           ca_returned>>
            /\ UNCHANGED <<splitVars, mergeVars, toolVars>>

\* self.cache[key] = img: a key that is present keeps its place in the dict
AddInsert ==
    \E t \in Threads :
        LET th == threads[t]
            at == KeyIndex(cache, th.key)
        IN  /\ th.pc = "insert"
            /\ cache' = IF at # 0 THEN [cache EXCEPT ![at] = th.img]
                                   ELSE Append(cache, th.img)
            /\ threads' = At(t, "account")
            /\ UNCHANGED <<max_size_mb, current_size_mb, ca_clock, ca_evicted,
                           ca_last, ca_returned, closed>>
            /\ UNCHANGED <<splitVars, mergeVars, toolVars>>

\* self.current_size_mb += size_mb, and get's "return img"
AddAccount ==
    \E t \in Threads :
        LET th == threads[t]
        IN  /\ th.pc = "account"
            /\ current_size_mb' = current_size_mb + th.size
            /\ threads' = Return(t)
            /\ UNCHANGED <<cache, max_size_mb, ca_clock, ca_evicted, ca_last,
                           ca_returned, closed>>
            /\ UNCHANGED <<splitVars, mergeVars, toolVars>>

SharedStart ==
    /\ cache = <<>>
    /\ \E b \in SharedBudgets : max_size_mb = b * MiB
    /\ current_size_mb = 0
    /\ ca_clock = 0 /\ ca_evicted = <<>> /\ ca_last = "none"
    /\ ca_returned = NoBuffer
    /\ threads = NoThreads /\ closed = <<>>

SharedNext ==
    \/ GetEnter
    \/ GetLoad
    \/ AddWhile
    \/ AddPick
    \/ AddPop
    \/ AddSettle
    \/ AddInsert
    \/ AddAccount


(***************************************************************************)
(* Encoder in full: save_image_with_quality.                               *)
(*   Buffers are named by the statement that creates them: "img" is the    *)
(*   caller's image, "copy" is img.copy(), "converted" is the result of    *)
(*   img_copy.convert(...), "background" is the white Image.new(...).      *)
(*   The resize of the platform branch is never reached (NameError on      *)
(*   PLATFORM_SPECS), so no buffer is made there.                          *)
(***************************************************************************)
SaveModes == {"RGB", "RGBA", "LA", "L", "P"}

\* keys of quality_map; "Lossless" stands for the Korean key of line 323,
\* "Best" for a label that is not a key
QualityLabels == {"Lossless", "High", "Medium", "Low", "Best"}
QualityNumbers == {1, 75, 90, 100}
QualityArgs ==
    {[kind |-> "label", label |-> l, value |-> 0] : l \in QualityLabels}
    \cup {[kind |-> "int", label |-> "", value |-> v] : v \in QualityNumbers}

Unbound == "unbound"
NoSave == [format |-> "none", quality |-> 0, subsampling |-> "absent"]

\* quality_map.get(quality, quality_map['Medium']) without the isinstance test
JpegOptionsFromMapOnly(q) ==
    CASE q.kind = "label" /\ q.label = "Lossless" -> [quality |-> 100, subsampling |-> "0"]
      [] q.kind = "label" /\ q.label = "High" -> [quality |-> 95, subsampling |-> "0"]
      [] q.kind = "label" /\ q.label = "Low" -> [quality |-> 70, subsampling |-> "absent"]
      [] OTHER -> [quality |-> 85, subsampling |-> "absent"]

\* lines 321-332: the options of the JPEG encode.  subsampling "0" is the
\* key subsampling=0 (none), "absent" is no key (the encoder's default).
JpegOptions(q) ==
    IF q.kind = "int"
    THEN [quality |-> q.value, subsampling |-> "absent"]
    ELSE CASE q.label = "Lossless" -> [quality |-> 100, subsampling |-> "0"]
           [] q.label = "High" -> [quality |-> 95, subsampling |-> "0"]
           [] q.label = "Medium" -> [quality |-> 85, subsampling |-> "absent"]
           [] q.label = "Low" -> [quality |-> 70, subsampling |-> "absent"]
           [] OTHER -> [quality |-> 85, subsampling |-> "absent"]

SaveIdle ==
    /\ sv_pc = "idle" /\ sv_mode = "RGB" /\ sv_png = FALSE /\ sv_platform = FALSE
    /\ sv_quality = [kind |-> "label", label |-> "Medium", value |-> 0]
    /\ sv_img_copy = Unbound /\ sv_background = Unbound
    /\ sv_made = {} /\ sv_closed = {} /\ sv_saved = NoSave /\ sv_result = "none"

SaveStart ==
    /\ sv_pc = "copy"
    /\ sv_mode \in SaveModes
    /\ sv_quality \in QualityArgs
    /\ sv_png \in BOOLEAN
    /\ sv_platform \in BOOLEAN
    /\ sv_img_copy = Unbound /\ sv_background = Unbound
    /\ sv_made = {"img"} /\ sv_closed = {} /\ sv_saved = NoSave /\ sv_result = "none"

\* lines 340-346: the except clause re-raises, the finally clause closes
\* what the locals img_copy and background are bound to at that moment
SaveExit(result, img_copy, background, made, saved) ==
    /\ sv_pc' = "done"
    /\ sv_result' = result
    /\ sv_img_copy' = img_copy
    /\ sv_background' = background
    /\ sv_made' = made
    /\ sv_saved' = saved
    /\ sv_closed' = sv_closed \cup ({img_copy, background} \ {Unbound})
    /\ UNCHANGED <<sv_mode, sv_quality, sv_png, sv_platform>>
    /\ UNCHANGED <<splitVars, mergeVars, cacheVars, psdVars, rowVars, editVars>>

\* line 280: img_copy = img.copy()
SaveCopy ==
    /\ sv_pc = "copy"
    /\ \E ok \in BOOLEAN :
         IF ok
         THEN /\ sv_pc' = "platform"
              /\ sv_img_copy' = "copy"
              /\ sv_made' = sv_made \cup {"copy"}
              /\ UNCHANGED <<sv_mode, sv_quality, sv_png, sv_platform, sv_background,
                             sv_closed, sv_saved, sv_result>>
              /\ UNCHANGED <<splitVars, mergeVars, cacheVars, psdVars, rowVars, editVars>>
         ELSE SaveExit("copy_error", Unbound, Unbound, sv_made, NoSave)

\* lines 282-295: the platform branch
SavePlatform ==
    /\ sv_pc = "platform"
    /\ IF sv_platform
       THEN SaveExit(SaveOutcome(TRUE, TRUE), sv_img_copy, sv_background, sv_made, NoSave)
       ELSE /\ sv_pc' = IF sv_png THEN "png" ELSE "flatten"
            /\ UNCHANGED <<sv_mode, sv_quality, sv_png, sv_platform, sv_img_copy,
                           sv_background, sv_made, sv_closed, sv_saved, sv_result>>
            /\ UNCHANGED <<splitVars, mergeVars, cacheVars, psdVars, rowVars, editVars>>

\* lines 297-306: the PNG path
SavePng ==
    /\ sv_pc = "png"
    /\ \E convOk \in BOOLEAN, ioOk \in BOOLEAN :
         LET png == [format |-> "PNG", quality |-> 0, subsampling |-> "absent"] IN
         IF sv_mode # "RGBA" /\ ~convOk
         THEN SaveExit("convert_error", sv_img_copy, sv_background, sv_made, NoSave)
         ELSE IF sv_mode # "RGBA"
         THEN SaveExit(SaveOutcome(FALSE, ioOk), "converted", sv_background,
                       sv_made \cup {"converted"}, png)
         ELSE SaveExit(SaveOutcome(FALSE, ioOk), sv_img_copy, sv_background, sv_made, png)

\* lines 308-317: the JPEG path brings the buffer to RGB
SaveFlatten ==
    /\ sv_pc = "flatten"
    /\ \E ok \in BOOLEAN :
         IF sv_mode \in {"RGBA", "LA"}
         THEN IF ok
              THEN /\ sv_pc' = "encode"
                   /\ sv_background' = "background"
                   /\ sv_img_copy' = "background"
                   /\ sv_made' = sv_made \cup {"background"}
                   /\ UNCHANGED <<sv_mode, sv_quality, sv_png, sv_platform,
                                  sv_closed, sv_saved, sv_result>>
                   /\ UNCHANGED <<splitVars, mergeVars, cacheVars, psdVars, rowVars, editVars>>
              ELSE SaveExit("paste_error", sv_img_copy, "background",
                            sv_made \cup {"background"}, NoSave)
         ELSE IF sv_mode # "RGB"
         THEN IF ok
              THEN /\ sv_pc' = "encode"
                   /\ sv_img_copy' = "converted"
                   /\ sv_made' = sv_made \cup {"converted"}
                   /\ UNCHANGED <<sv_mode, sv_quality, sv_png, sv_platform, sv_background,
                                  sv_closed, sv_saved, sv_result>>
                   /\ UNCHANGED <<splitVars, mergeVars, cacheVars, psdVars, rowVars, editVars>>
              ELSE SaveExit("convert_error", sv_img_copy, sv_background, sv_made, NoSave)
         ELSE /\ ok
              /\ sv_pc' = "encode"
              /\ UNCHANGED <<sv_mode, sv_quality, sv_png, sv_platform, sv_img_copy,
                             sv_background, sv_made, sv_closed, sv_saved, sv_result>>
              /\ UNCHANGED <<splitVars, mergeVars, cacheVars, psdVars, rowVars, editVars>>

\* lines 319-338: the options and the encode
SaveJpeg ==
    /\ sv_pc = "encode"
    /\ \E ioOk \in BOOLEAN :
         LET opts == JpegOptions(sv_quality) IN
         SaveExit(SaveOutcome(FALSE, ioOk), sv_img_copy, sv_background, sv_made,
                  [format |-> "JPEG", quality |-> opts.quality,
                   subsampling |-> opts.subsampling])

SaveNext ==
    \/ SaveCopy
    \/ SavePlatform
    \/ SavePng
    \/ SaveFlatten
    \/ SaveJpeg

(***************************************************************************)
(* PSD loader: load_psd_image.                                             *)
(***************************************************************************)
DefaultMemoryLimit == 2048
PsdLimits == {64, DefaultMemoryLimit}

\* width, height and bands of what the document flattens to
PsdDocs ==
    {[w |-> 1000, h |-> 1000, bands |-> 4],
     [w |-> 4096, h |-> 4096, bands |-> 1],
     [w |-> 4096, h |-> 4097, bands |-> 1],
     [w |-> 4096, h |-> 4096, bands |-> 4],
     [w |-> 16384, h |-> 32768, bands |-> 1],
     [w |-> 16384, h |-> 32769, bands |-> 1],
     [w |-> 60000, h |-> 36000, bands |-> 3],
     [w |-> 2147483647, h |-> 1, bands |-> 1]}

Strategies == <<"compose", "as_PIL", "composite">>

\* how a call of a strategy can end: with an image, with an array, with
\* None, with AttributeError (the method does not exist in the installed
\* psd-tools) or with another exception
StrategyOutcomes == {"image", "array", "None", "AttributeError", "ValueError"}

\* an estimate that counts one band only
PsdMemoryExceedsOneBand(w, h, bands, limit) ==
    h > (limit * (MiB \div 4)) \div w

\* lines 775-776: (width * height * bands * 4) / (1024 * 1024) > memory_limit
PsdMemoryExceeds(w, h, bands, limit) ==
    h > ((limit * (MiB \div 4)) \div bands) \div w

PsdIdle ==
    /\ pd_pc = "idle" /\ pd_doc = [w |-> 1, h |-> 1, bands |-> 1]
    /\ pd_file_over = FALSE /\ pd_limit = DefaultMemoryLimit
    /\ pd_psd = Unbound /\ pd_tried = <<>> /\ pd_img = Unbound
    /\ pd_img_closed = FALSE /\ pd_result = "none" /\ pd_error = "none"

PsdStart ==
    /\ pd_pc = "open"
    /\ pd_doc \in PsdDocs
    /\ pd_file_over \in BOOLEAN
    /\ pd_limit \in PsdLimits
    /\ pd_psd = Unbound /\ pd_tried = <<>> /\ pd_img = Unbound
    /\ pd_img_closed = FALSE /\ pd_result = "none" /\ pd_error = "none"

\* lines 783-792: return or re-raise; the finally clause closes psd when
\* the local is bound
PsdExit(result, error, tried, img, img_closed) ==
    /\ pd_pc' = "done"
    /\ pd_result' = result
    /\ pd_error' = error
    /\ pd_tried' = tried
    /\ pd_img' = img
    /\ pd_img_closed' = img_closed
    /\ pd_psd' = IF pd_psd = "open" THEN "closed" ELSE pd_psd
    /\ UNCHANGED <<pd_doc, pd_file_over, pd_limit>>
    /\ UNCHANGED <<splitVars, mergeVars, cacheVars, saveVars, rowVars, editVars>>

PsdGoto(pc, tried, img) ==
    /\ pd_pc' = pc
    /\ pd_tried' = tried
    /\ pd_img' = img
    /\ UNCHANGED <<pd_doc, pd_file_over, pd_limit, pd_psd, pd_img_closed,
                   pd_result, pd_error>>
    /\ UNCHANGED <<splitVars, mergeVars, cacheVars, saveVars, rowVars, editVars>>

\* lines 746-751: the check of the file size and PSDImage.open
PsdOpen ==
    /\ pd_pc = "open"
    /\ \E ok \in BOOLEAN :
         IF pd_file_over
         THEN PsdExit("raised", "file_size", pd_tried, pd_img, FALSE)
         ELSE IF ok
         THEN /\ pd_pc' = "compose"
              /\ pd_psd' = "open"
              /\ UNCHANGED <<pd_doc, pd_file_over, pd_limit, pd_tried, pd_img,
                             pd_img_closed, pd_result, pd_error>>
              /\ UNCHANGED <<splitVars, mergeVars, cacheVars, saveVars, rowVars, editVars>>
         ELSE PsdExit("raised", "open", pd_tried, pd_img, FALSE)

\* one strategy called inside its try block: AttributeError goes on to the
\* handler "next", any other exception leaves the function; a returned
\* value, None included, is bound to img
PsdCall(strategy, next) ==
    \E out \in StrategyOutcomes :
        LET tried == Append(pd_tried, [strategy |-> strategy, outcome |-> out]) IN
        CASE out = "AttributeError" /\ next # "none" -> PsdGoto(next, tried, pd_img)
          [] out = "AttributeError" /\ next = "none" ->
                PsdExit("raised", "strategy", tried, pd_img, FALSE)
          [] out = "ValueError" -> PsdExit("raised", "strategy", tried, pd_img, FALSE)
          [] OTHER -> PsdGoto("check", tried, out)

\* lines 753-754
PsdCompose == pd_pc = "compose" /\ PsdCall("compose", "as_PIL")

\* lines 755-757
PsdAsPil == pd_pc = "as_PIL" /\ PsdCall("as_PIL", "composite")

\* lines 758-759
PsdComposite == pd_pc = "composite" /\ PsdCall("composite", "none")

\* lines 761-781: None, Image.fromarray, the two limits, return img
PsdCheck ==
    /\ pd_pc = "check"
    /\ IF pd_img = "None"
       THEN PsdExit("raised", "no_image", pd_tried, pd_img, FALSE)
       ELSE IF PixelLimitExceeded(pd_doc.w, pd_doc.h)
       THEN PsdExit("raised", "pixels", pd_tried, "image", TRUE)
       ELSE IF PsdMemoryExceeds(pd_doc.w, pd_doc.h, pd_doc.bands, pd_limit)
       THEN PsdExit("raised", "memory", pd_tried, "image", TRUE)
       ELSE PsdExit("image", "none", pd_tried, "image", FALSE)

PsdNext ==
    \/ PsdOpen
    \/ PsdCompose
    \/ PsdAsPil
    \/ PsdComposite
    \/ PsdCheck

(***************************************************************************)
(* File rows and the batch split: FileRow._parse, FileRow._do_split,       *)
(* App._batch.                                                             *)
(*   Every ProgressDialog is modal (grab_set), so the user reaches the     *)
(*   rows only while no dialog is open.  The quality setting is left at    *)
(*   one value, so a combo is told apart by the positions text alone.      *)
(***************************************************************************)
MaxRows == 2
Rows == 1..MaxRows

\* a token of the positions text: an integer, or something int() refuses
Num(n) == [int |-> TRUE, val |-> n]
Word == [int |-> FALSE, val |-> 0]

\* the texts a user leaves in the positions field: empty, two plans,
\* a plan that is not ascending, one that is not a number
PosTexts == {<<>>, <<Num(100), Num(200)>>, <<Num(150)>>,
             <<Num(200), Num(100)>>, <<Word>>}

\* _parse: val is None for an empty text, for a token that is not an
\* integer and for numbers that are not strictly ascending
ParseFails(txt) ==
    \/ txt = <<>>
    \/ \E k \in DOMAIN txt : ~txt[k].int
    \/ \E k \in 1..(Len(txt) - 1) : txt[k].val >= txt[k + 1].val

\* has_input: self.path and self.pos.get().strip()
HasInput(txt) == txt # <<>>

\* combo = f"{mode}|{key}|{q}"
Combo(txt) == <<"list", txt, "High">>

RowState(tag, ver) == [tag |-> tag, ver |-> ver]
Blank == RowState("", 0)
Skip == RowState("SKIP", 0)

\* 'OK' if ver == 0 else f"v{ver:03d}"
StateAfter(ver) == IF ver = 0 THEN RowState("OK", 0) ELSE RowState("v", ver)

NoWorker == [phase |-> "none", ver |-> 0]

\* ver = 0 if not self.hist else max(self.hist.values()) + 1
NextVersion(hist) ==
    IF hist = {} THEN 0
    ELSE (CHOOSE v \in {h.ver : h \in hist} : \A h \in hist : h.ver <= v) + 1

\* _do_split of row r, up to thread.start(): what it leaves in the row
DoSplit(r) ==
    LET txt   == rw_pos[r]
        combo == Combo(txt)
        ver   == NextVersion(rw_hist[r])
    IN  IF ParseFails(txt)
        THEN [state |-> rw_state[r], hist |-> rw_hist[r], worker |-> rw_worker[r]]
        ELSE IF \E h \in rw_hist[r] : h.combo = combo
        THEN [state |-> Skip, hist |-> rw_hist[r], worker |-> rw_worker[r]]
        ELSE [state |-> rw_state[r],
              hist |-> rw_hist[r] \cup {[combo |-> combo, ver |-> ver,
                                         outcome |-> "pending"]},
              worker |-> [phase |-> "running", ver |-> ver]]

NoDialog ==
    /\ bt_pc \in {"idle", "done"}
    /\ \A r \in Rows : rw_worker[r].phase = "none"

RowIdle ==
    /\ rw_pos = [r \in Rows |-> <<>>]
    /\ rw_state = [r \in Rows |-> Blank]
    /\ rw_hist = [r \in Rows |-> {}]
    /\ rw_worker = [r \in Rows |-> NoWorker]
    /\ bt_pc = "idle" /\ bt_t = <<>> /\ bt_index = 0 /\ bt_original = Blank
    /\ bt_completed = 0 /\ bt_cancel = FALSE /\ bt_dialog = "none"

\* the window with its rows, a file loaded in each, nothing typed yet
RowStart == RowIdle

\* the user types into the positions field of a row
RowSetPos ==
    /\ NoDialog
    /\ \E r \in Rows, txt \in PosTexts :
         /\ txt # rw_pos[r]
         /\ rw_pos' = [rw_pos EXCEPT ![r] = txt]
    /\ UNCHANGED <<rw_state, rw_hist, rw_worker, bt_pc, bt_t, bt_index,
                   bt_original, bt_completed, bt_cancel, bt_dialog>>
    /\ UNCHANGED <<splitVars, mergeVars, cacheVars, saveVars, psdVars, editVars>>

\* set_file: another file is loaded into the row
RowSetFile ==
    /\ NoDialog
    /\ \E r \in Rows :
         /\ rw_hist[r] # {}
         /\ rw_pos' = [rw_pos EXCEPT ![r] = <<>>]
         /\ rw_state' = [rw_state EXCEPT ![r] = Blank]
         /\ rw_hist' = [rw_hist EXCEPT ![r] = {}]
    /\ UNCHANGED <<rw_worker, bt_pc, bt_t, bt_index,
                   bt_original, bt_completed, bt_cancel, bt_dialog>>
    /\ UNCHANGED <<splitVars, mergeVars, cacheVars, saveVars, psdVars, editVars>>

\* the split button of a row: _do_split
RowSplitClick ==
    /\ NoDialog
    /\ \E r \in Rows :
         LET d == DoSplit(r) IN
         /\ rw_state' = [rw_state EXCEPT ![r] = d.state]
         /\ rw_hist' = [rw_hist EXCEPT ![r] = d.hist]
         /\ rw_worker' = [rw_worker EXCEPT ![r] = d.worker]
    /\ UNCHANGED <<rw_pos, bt_pc, bt_t, bt_index,
                   bt_original, bt_completed, bt_cancel, bt_dialog>>
    /\ UNCHANGED <<splitVars, mergeVars, cacheVars, saveVars, psdVars, editVars>>

\* split_task in the worker thread: split_image_at_points_custom returns
\* whether it wrote the slices or showed "분할 실패" (its except clause
\* raises nothing), then the state callback is queued with after(0, ...)
WorkerSplit ==
    /\ \E r \in Rows, ok \in BOOLEAN :
         /\ rw_worker[r].phase = "running"
         /\ rw_worker' = [rw_worker EXCEPT ![r].phase = "posted"]
         /\ rw_hist' = [rw_hist EXCEPT ![r] =
                {IF h.ver = rw_worker[r].ver
                 THEN [h EXCEPT !.outcome = IF ok THEN "written" ELSE "failed"]
                 ELSE h : h \in rw_hist[r]}]
    /\ UNCHANGED <<rw_pos, rw_state, bt_pc, bt_t, bt_index,
                   bt_original, bt_completed, bt_cancel, bt_dialog>>
    /\ UNCHANGED <<splitVars, mergeVars, cacheVars, saveVars, psdVars, editVars>>

\* the queued callbacks run in the main loop: state.set(...), dialog.destroy
WorkerPosted ==
    /\ \E r \in Rows :
         /\ rw_worker[r].phase = "posted"
         /\ rw_state' = [rw_state EXCEPT ![r] = StateAfter(rw_worker[r].ver)]
         /\ rw_worker' = [rw_worker EXCEPT ![r] = NoWorker]
    /\ UNCHANGED <<rw_pos, rw_hist, bt_pc, bt_t, bt_index,
                   bt_original, bt_completed, bt_cancel, bt_dialog>>
    /\ UNCHANGED <<splitVars, mergeVars, cacheVars, saveVars, psdVars, editVars>>

\* process_next(index) over the rows t; cancelled is cancel_event.is_set()
ProcessNext(t, index, completed, cancelled) ==
    /\ bt_t' = t
    /\ bt_index' = index
    /\ bt_completed' = completed
    /\ IF index >= Len(t) \/ cancelled
       THEN /\ bt_pc' = "done"
            /\ bt_dialog' = "destroyed"
            /\ UNCHANGED <<bt_original, rw_state, rw_hist, rw_worker>>
       ELSE LET row == t[index + 1]
                d   == DoSplit(row)
            IN  /\ bt_pc' = "poll"
                /\ bt_dialog' = "open"
                /\ bt_original' = rw_state[row]
                /\ rw_state' = [rw_state EXCEPT ![row] = d.state]
                /\ rw_hist' = [rw_hist EXCEPT ![row] = d.hist]
                /\ rw_worker' = [rw_worker EXCEPT ![row] = d.worker]
    /\ UNCHANGED rw_pos
    /\ UNCHANGED <<splitVars, mergeVars, cacheVars, saveVars, psdVars, editVars>>

\* _batch: the rows with input, the dialog, process_next(0)
BatchStart ==
    /\ NoDialog
    /\ LET t == SelectSeq([r \in Rows |-> r], LAMBDA r : HasInput(rw_pos[r])) IN
       /\ t # <<>>
       /\ bt_cancel' = FALSE
       /\ ProcessNext(t, 0, 0, FALSE)

\* the cancel button of the batch dialog
BatchCancel ==
    /\ bt_pc \in {"poll", "next"}
    /\ ~bt_cancel
    /\ bt_cancel' = TRUE
    /\ UNCHANGED <<rw_pos, rw_state, rw_hist, rw_worker, bt_pc, bt_t, bt_index,
                   bt_original, bt_completed, bt_dialog>>
    /\ UNCHANGED <<splitVars, mergeVars, cacheVars, saveVars, psdVars, editVars>>

\* process_next(index + 1), fired by after(100, ...)
BatchProcessNext ==
    /\ bt_pc = "next"
    /\ UNCHANGED bt_cancel
    /\ ProcessNext(bt_t, bt_index, bt_completed, bt_cancel)

\* check_completion(index, original_state), fired by after(100, ...)
BatchCheckCompletion ==
    /\ bt_pc = "poll"
    /\ LET state == rw_state[bt_t[bt_index + 1]] IN
       IF state # bt_original
       THEN /\ bt_completed' = IF state.tag \in {"OK", "SKIP", "v"}
                               THEN bt_completed + 1 ELSE bt_completed
            /\ bt_index' = bt_index + 1
            /\ bt_pc' = "next"
       ELSE UNCHANGED <<bt_completed, bt_index, bt_pc>>
    /\ UNCHANGED <<rw_pos, rw_state, rw_hist, rw_worker, bt_t, bt_original,
                   bt_cancel, bt_dialog>>
    /\ UNCHANGED <<splitVars, mergeVars, cacheVars, saveVars, psdVars, editVars>>

RowNext ==
    \/ RowSetPos
    \/ RowSetFile
    \/ RowSplitClick
    \/ WorkerSplit
    \/ WorkerPosted
    \/ BatchStart
    \/ BatchCancel
    \/ BatchProcessNext
    \/ BatchCheckCompletion

(***************************************************************************)
(* Cut-point editor: PreviewWindow.on_click, on_drag, on_release,          *)
(* show_context_menu, delete_selected_point, clear_points, auto_split,     *)
(* save_undo_state, undo, redo.                                            *)
(*   The view is at zoom 100 % with no offset and snap off, so a canvas    *)
(*   y is the image y.  ed_mark and ed_grab are not fields of the window:  *)
(*   they note the last edit for the statement of the properties.          *)
(***************************************************************************)
MaxEditorSteps == 6

\* len(self.undo_stack) > 50
UndoLimit == 50

\* a press within 12 canvas pixels of a line picks the line
PickRadius == 12

\* a new point within 2 pixels of an existing one is a duplicate
DuplicateRadius == 2

EditorHeight == 300

\* where the user presses, moves to, and right-clicks
ClickYs == {100, 110, 200}
DragYs == {150, 200, 400}
IntervalChoices == {100, 150}
CountChoices == {1, 2}

NoneIdx == -1

Abs(x) == IF x < 0 THEN -x ELSE x

\* index (from 0) of the first line within PickRadius of y, or None
LineAt(points, y) ==
    IF \E k \in DOMAIN points : Abs(y - points[k]) <= PickRadius
    THEN SetMin({k \in DOMAIN points : Abs(y - points[k]) <= PickRadius}) - 1
    ELSE NoneIdx

\* points.index(y)
IndexOf(points, y) == (CHOOSE k \in DOMAIN points : points[k] = y) - 1

NoMark == [phase |-> "none", before |-> <<>>, after |-> <<>>]

\* what ed_mark becomes when a handler has changed cut_points from
\* before to after, or has left them as they were
MarkEdit(before, after) ==
    IF before # after THEN [phase |-> "edited", before |-> before, after |-> after]
    ELSE NoMark

\* save_undo_state
SaveUndoState(undo, redo, cut_points) ==
    IF undo = <<>> \/ cut_points # undo[Len(undo)]
    THEN LET pushed == Append(undo, cut_points)
         IN  [undo |-> IF Len(pushed) > UndoLimit THEN Tail(pushed) ELSE pushed,
              redo |-> <<>>]
    ELSE [undo |-> undo, redo |-> redo]

EditIdle ==
    /\ ed_cut_points = <<>> /\ ed_undo_stack = <<>> /\ ed_redo_stack = <<>>
    /\ ed_selected = NoneIdx /\ ed_dragging = FALSE /\ ed_pressed = FALSE
    /\ ed_grab = <<>> /\ ed_mark = NoMark /\ ed_steps = 0

\* __init__ and load_image: the points of the row's positions field, if any
EditStart ==
    /\ ed_cut_points \in {<<>>, <<100>>, <<100, 200>>}
    /\ ed_undo_stack = <<>> /\ ed_redo_stack = <<>>
    /\ ed_selected = NoneIdx /\ ed_dragging = FALSE /\ ed_pressed = FALSE
    /\ ed_grab = <<>> /\ ed_mark = NoMark /\ ed_steps = 1

EditStep ==
    /\ ed_steps > 0
    /\ ed_steps < MaxEditorSteps
    /\ ed_steps' = ed_steps + 1
    /\ UNCHANGED <<splitVars, mergeVars, cacheVars, saveVars, psdVars, rowVars>>

\* on_click inside the image: pick a line, or add a point
EdClick ==
    /\ EditStep
    /\ ~ed_pressed
    /\ ed_pressed' = TRUE
    /\ ed_grab' = ed_cut_points
    /\ \E y \in ClickYs :
         LET clicked_line == LineAt(ed_cut_points, y)
             duplicate == \E k \in DOMAIN ed_cut_points :
                              Abs(ed_cut_points[k] - y) <= DuplicateRadius
             saved == SaveUndoState(ed_undo_stack, ed_redo_stack, ed_cut_points)
             added == SortedSeqOf(Range(ed_cut_points) \cup {y})
         IN  IF clicked_line # NoneIdx
             THEN /\ ed_selected' = clicked_line
                  /\ ed_dragging' = TRUE
                  /\ ed_mark' = NoMark
                  /\ UNCHANGED <<ed_cut_points, ed_undo_stack, ed_redo_stack>>
             ELSE IF 0 <= y /\ y <= EditorHeight /\ ~duplicate
             THEN /\ ed_undo_stack' = saved.undo
                  /\ ed_redo_stack' = saved.redo
                  /\ ed_cut_points' = added
                  /\ ed_selected' = NoneIdx
                  /\ ed_mark' = MarkEdit(ed_cut_points, added)
                  /\ UNCHANGED ed_dragging
             ELSE /\ ed_selected' = NoneIdx
                  /\ ed_mark' = NoMark
                  /\ UNCHANGED <<ed_cut_points, ed_undo_stack, ed_redo_stack, ed_dragging>>

\* on_drag while a line is held
EdDrag ==
    /\ EditStep
    /\ ed_pressed /\ ed_dragging /\ ed_selected # NoneIdx
    /\ ed_selected < Len(ed_cut_points)
    /\ \E y \in DragYs :
         LET new_original_y == Max(0, Min(EditorHeight, y))
             moved == SortedSeqOf(Range([ed_cut_points EXCEPT
                                           ![ed_selected + 1] = new_original_y]))
         IN  /\ ed_cut_points' = moved
             /\ ed_selected' = IndexOf(moved, new_original_y)
    /\ ed_mark' = NoMark
    /\ UNCHANGED <<ed_undo_stack, ed_redo_stack, ed_dragging, ed_pressed, ed_grab>>

\* on_release
EdRelease ==
    /\ EditStep
    /\ ed_pressed
    /\ ed_pressed' = FALSE
    /\ LET saved == SaveUndoState(ed_undo_stack, ed_redo_stack, ed_cut_points) IN
       IF ed_dragging
       THEN /\ ed_undo_stack' = saved.undo
            /\ ed_redo_stack' = saved.redo
            /\ ed_mark' = MarkEdit(ed_grab, ed_cut_points)
       ELSE /\ UNCHANGED <<ed_undo_stack, ed_redo_stack>>
            /\ ed_mark' = IF ed_mark.phase = "edited" THEN ed_mark ELSE NoMark
    /\ ed_dragging' = FALSE
    /\ ed_selected' = NoneIdx
    /\ UNCHANGED <<ed_cut_points, ed_grab>>

\* show_context_menu: a right click picks the line under the pointer
EdContextMenu ==
    /\ EditStep
    /\ ~ed_pressed
    /\ \E y \in ClickYs : ed_selected' = LineAt(ed_cut_points, y)
    /\ ed_mark' = NoMark
    /\ UNCHANGED <<ed_cut_points, ed_undo_stack, ed_redo_stack, ed_dragging,
                   ed_pressed, ed_grab>>

\* delete_selected_point
EdDelete ==
    /\ EditStep
    /\ ed_selected # NoneIdx /\ 0 <= ed_selected /\ ed_selected < Len(ed_cut_points)
    /\ LET saved == SaveUndoState(ed_undo_stack, ed_redo_stack, ed_cut_points)
           left  == RemoveAt(ed_cut_points, ed_selected + 1)
       IN  /\ ed_undo_stack' = saved.undo
           /\ ed_redo_stack' = saved.redo
           /\ ed_cut_points' = left
           /\ ed_mark' = MarkEdit(ed_cut_points, left)
    /\ ed_selected' = NoneIdx
    /\ ed_dragging' = FALSE
    /\ UNCHANGED <<ed_pressed, ed_grab>>

\* clear_points, confirmed
EdClear ==
    /\ EditStep
    /\ ~ed_pressed
    /\ ed_cut_points # <<>>
    /\ LET saved == SaveUndoState(ed_undo_stack, ed_redo_stack, ed_cut_points) IN
       /\ ed_undo_stack' = saved.undo
       /\ ed_redo_stack' = saved.redo
    /\ ed_cut_points' = <<>>
    /\ ed_mark' = MarkEdit(ed_cut_points, <<>>)
    /\ ed_selected' = NoneIdx
    /\ ed_dragging' = FALSE
    /\ UNCHANGED <<ed_pressed, ed_grab>>

\* the new points of an auto-split replace the old ones
AutoSplit(points) ==
    /\ EditStep
    /\ ~ed_pressed
    /\ LET saved == SaveUndoState(ed_undo_stack, ed_redo_stack, ed_cut_points) IN
       /\ ed_undo_stack' = saved.undo
       /\ ed_redo_stack' = saved.redo
    /\ ed_cut_points' = points
    /\ ed_mark' = MarkEdit(ed_cut_points, points)
    /\ UNCHANGED <<ed_selected, ed_dragging, ed_pressed, ed_grab>>

\* auto_split.apply_interval: range(interval, height, interval)
EdApplyInterval ==
    \E interval \in IntervalChoices :
        AutoSplit(IntervalPoints(interval, EditorHeight))

\* auto_split.apply_count: interval * i for i in 1..count
EdApplyCount ==
    \E count \in CountChoices :
        LET interval == EditorHeight \div (count + 1) IN
        AutoSplit([i \in 1..count |-> interval * i])

\* undo
EdUndo ==
    /\ EditStep
    /\ IF Len(ed_undo_stack) > 1
       THEN /\ ed_redo_stack' = Append(ed_redo_stack, ed_cut_points)
            /\ ed_cut_points' = ed_undo_stack[Len(ed_undo_stack)]
            /\ ed_undo_stack' = SubSeq(ed_undo_stack, 1, Len(ed_undo_stack) - 1)
       ELSE UNCHANGED <<ed_cut_points, ed_undo_stack, ed_redo_stack>>
    /\ ed_mark' = IF ed_mark.phase = "edited"
                  THEN [ed_mark EXCEPT !.phase = "undone"] ELSE NoMark
    /\ UNCHANGED <<ed_selected, ed_dragging, ed_pressed, ed_grab>>

\* redo
EdRedo ==
    /\ EditStep
    /\ IF ed_redo_stack # <<>>
       THEN /\ ed_undo_stack' = Append(ed_undo_stack, ed_cut_points)
            /\ ed_cut_points' = ed_redo_stack[Len(ed_redo_stack)]
            /\ ed_redo_stack' = SubSeq(ed_redo_stack, 1, Len(ed_redo_stack) - 1)
       ELSE UNCHANGED <<ed_cut_points, ed_undo_stack, ed_redo_stack>>
    /\ ed_mark' = IF ed_mark.phase = "undone"
                  THEN [ed_mark EXCEPT !.phase = "redone"] ELSE NoMark
    /\ UNCHANGED <<ed_selected, ed_dragging, ed_pressed, ed_grab>>

EditNext ==
    \/ EdClick
    \/ EdDrag
    \/ EdRelease
    \/ EdContextMenu
    \/ EdDelete
    \/ EdClear
    \/ EdApplyInterval
    \/ EdApplyCount
    \/ EdUndo
    \/ EdRedo

ToolsIdle == SaveIdle /\ PsdIdle /\ RowIdle /\ EditIdle

(***************************************************************************)
(* Specifications: one per operation.                                      *)
(***************************************************************************)
EngineIdle == SplitIdle /\ MergeIdle /\ CacheIdle

SaveInit == EngineIdle /\ SaveStart /\ PsdIdle /\ RowIdle /\ EditIdle
SaveSpec == SaveInit /\ [][SaveNext]_vars

PsdInit == EngineIdle /\ SaveIdle /\ PsdStart /\ RowIdle /\ EditIdle
PsdSpec == PsdInit /\ [][PsdNext]_vars

RowInit == EngineIdle /\ SaveIdle /\ PsdIdle /\ RowStart /\ EditIdle
RowSpec == RowInit /\ [][RowNext]_vars

EditInit == EngineIdle /\ SaveIdle /\ PsdIdle /\ RowIdle /\ EditStart
EditSpec == EditInit /\ [][EditNext]_vars

SplitInit == SplitStart /\ MergeIdle /\ CacheIdle /\ ToolsIdle
SplitSpec == SplitInit /\ [][SplitNext]_vars

\* FileRow._do_split: the split runs in a worker thread behind a
\* ProgressDialog whose cancel button the user may press at any moment.
DialogNext == SplitSetCancel \/ SplitNext
DialogSpec == SplitInit /\ [][DialogNext]_vars

MergeInit == SplitIdle /\ MergeStart /\ CacheIdle /\ ToolsIdle
MergeSpec == MergeInit /\ [][MergeNext]_vars

CacheInit == SplitIdle /\ MergeIdle /\ CacheStart /\ ToolsIdle
CacheSpec == CacheInit /\ [][CacheNext]_vars

SharedInit == SplitIdle /\ MergeIdle /\ SharedStart /\ ToolsIdle
SharedSpec == SharedInit /\ [][SharedNext]_vars

\* one run of the engine: a split or a merge
RunInit == SplitInit \/ MergeInit
RunNext == SplitNext \/ MergeNext
RunSpec == RunInit /\ [][RunNext]_vars


(***************************************************************************)
(* Properties of the slicer.                                               *)
(***************************************************************************)
SliceHeights == [k \in DOMAIN sp_slices |-> sp_slices[k].box.bottom - sp_slices[k].box.top]

SplitSucceeded == sp_pc = "done" /\ sp_error = NoError

PlanInRange == \A p \in Range(sp_arg) : 0 < p /\ p < sp_h

\* C1: with every offset of the plan inside (0, H), the slices written are
\* rows [seq[i], seq[i+1]) of seq = [0] + sorted distinct offsets + [H] over
\* the full width: each is non-empty, slice i+1 starts where slice i ends,
\* and a split that ends without error has written one slice more than
\* there are distinct offsets, cut exactly at the offsets, ending at row H,
\* with heights that sum to H.
C1_SlicesPartitionImage ==
    /\ \A k \in DOMAIN sp_slices :
         LET s == sp_slices[k]
         IN  /\ s.index = k - 1
             /\ s.box.left = 0 /\ s.box.right = sp_w
             /\ s.box.top < s.box.bottom
             /\ s.box.top = IF k = 1 THEN 0 ELSE sp_slices[k - 1].box.bottom
             /\ s.box.bottom <= sp_h
    /\ SplitSucceeded =>
         /\ PlanInRange
         /\ Len(sp_slices) = Cardinality(Range(sp_arg)) + 1
         /\ sp_slices[Len(sp_slices)].box.bottom = sp_h
         /\ {sp_slices[k].box.bottom : k \in 1 .. Len(sp_slices) - 1} = Range(sp_arg)
         /\ SumSeq(SliceHeights) = sp_h
    /\ PlanInRange => sp_error.kind # "cut_plan"

C1_Witness ==
    /\ SplitSucceeded
    /\ sp_h = 5000
    /\ sp_arg = <<1200, 2400, 3600, 4800>>
    /\ SliceHeights = <<1200, 1200, 1200, 1200, 200>>

PlanHasBadOffset == \E p \in Range(sp_arg) : p <= 0 \/ p >= sp_h

StrictlyAscending(s) == \A k \in 1 .. Len(s) - 1 : s[k] < s[k + 1]

\* C2: the offsets are sorted and de-duplicated before they are validated,
\* and a plan with an offset <= 0 or >= H (0 and H included) is rejected:
\* the loop is never entered, no slice is written, and once the source has
\* been decoded the split ends with the cut-plan error; a plan that is in
\* range once normalised is not rejected for its order or its duplicates.
C2_BadOffsetRejected ==
    /\ PlanHasBadOffset =>
         /\ sp_slices = <<>> /\ sp_crops = 0
         /\ sp_pc \notin {"loop", "finish"}
         /\ sp_pc = "done" => sp_error # NoError
         /\ (sp_pc = "done" /\ sp_img = "open") => sp_error.kind = "cut_plan"
    /\ sp_error.kind = "cut_plan" => PlanHasBadOffset
    /\ sp_pc \in {"loop", "finish"} =>
         /\ StrictlyAscending(sp_points)
         /\ Range(sp_points) = Range(sp_arg)
         /\ sp_seq = <<0>> \o sp_points \o <<sp_h>>

C2_Witness ==
    /\ sp_pc = "done"
    /\ sp_error.kind = "cut_plan"
    /\ sp_arg = <<4, 2, 2>>
    /\ sp_h = 4
    /\ sp_points = <<2, 4>>
    /\ sp_slices = <<>>

\* C10: when cropping or encoding slice i fails the split is over: the
\* function has left its loop for good, the slices written are exactly
\* those before i, no later slice was cropped, progress 100 was never
\* reported (the last value reported is that of slice i), and the error
\* shown names the slice as i+1 of the total, with the cause.
C10_SliceFailureAborts ==
    sp_error.kind = "slice" =>
        /\ sp_pc = "done"
        /\ sp_error.total = Len(sp_seq) - 1
        /\ sp_error.total = Cardinality(Range(sp_arg)) + 1
        /\ sp_error.slice = Len(sp_slices) + 1
        /\ sp_error.slice <= sp_error.total
        /\ sp_error.cause \in {"crop_failed", "io_error", "name_error"}
        /\ sp_crops <= sp_error.slice
        /\ \A k \in DOMAIN sp_slices : sp_slices[k].index < sp_error.slice - 1
        /\ \A k \in DOMAIN sp_progress : sp_progress[k] # <<100, 1>>
        /\ sp_progress[Len(sp_progress)] = <<(sp_error.slice - 1) * 100, sp_error.total>>

C10_Witness ==
    /\ sp_error = [kind |-> "slice", slice |-> 2, total |-> 3, cause |-> "io_error"]
    /\ Len(sp_slices) = 1
    /\ sp_crops = 2


(***************************************************************************)
(* Properties of the merger.                                               *)
(***************************************************************************)
MaxWidthOf(files) == CHOOSE m \in {files[k].w : k \in DOMAIN files} :
                        \A k \in DOMAIN files : files[k].w <= m

HeightsOf(files) == [k \in DOMAIN files |-> files[k].h]

\* the rows of the composite above input k (k counted from 1)
RowsBefore(files, k) == SumSeq(SubSeq(HeightsOf(files), 1, k - 1))

\* x is the floor of (maxWidth - width) / 2
Centred(x, maxWidth, width) ==
    2 * x <= maxWidth - width /\ maxWidth - width < 2 * x + 2

InMemoryPath ==
    \/ mg_pc \in {"composite", "save"}
    \/ mg_pc = "done" /\ mg_result.at \in {"composite", "save"}

StreamingPath ==
    \/ mg_pc \in {"spill_open", "spill_chunk", "assemble", "paste", "stream_save"}
    \/ mg_pc = "done" /\ mg_result.at \in {"spill", "assemble", "paste", "stream_save"}

NoOverlap(pastes) ==
    \A a, b \in DOMAIN pastes :
        a < b => pastes[a].y + pastes[a].h <= pastes[b].y

\* C3: in the in-memory path (no platform) the composite is max-width wide
\* and sum-of-heights high, the k-th paste is input k, whole, at
\* y = sum of the heights of the inputs before it and
\* x = (maxWidth - width_k) // 2, no two pastes overlap, and what is encoded
\* is that composite with all N inputs pasted.
C3_InMemoryPlacement ==
    InMemoryPath =>
        /\ ~mg_platform
        /\ mg_canvas.w = MaxWidthOf(mg_files)
        /\ mg_canvas.h = SumSeq(HeightsOf(mg_files))
        /\ \A k \in DOMAIN mg_pastes :
             LET p == mg_pastes[k]
             IN  /\ p.file = k - 1 /\ p.src_y = 0
                 /\ p.w = mg_files[k].w /\ p.h = mg_files[k].h
                 /\ p.y = RowsBefore(mg_files, k)
                 /\ Centred(p.x, MaxWidthOf(mg_files), p.w)
                 /\ p.x >= 0 /\ p.x + p.w <= mg_canvas.w
                 /\ p.y + p.h <= mg_canvas.h
        /\ NoOverlap(mg_pastes)
        /\ mg_output.written =>
             /\ mg_output.w = MaxWidthOf(mg_files)
             /\ mg_output.h = SumSeq(HeightsOf(mg_files))
             /\ mg_output.pastes = Len(mg_files)

C3_Witness ==
    /\ mg_output.written
    /\ mg_files = << [w |-> 600, h |-> 1000], [w |-> 800, h |-> 1500],
                     [w |-> 600, h |-> 800] >>
    /\ mg_output.w = 800 /\ mg_output.h = 3300
    /\ [k \in 1 .. 3 |-> <<mg_pastes[k].x, mg_pastes[k].y>>]
         = << <<100, 0>>, <<0, 1000>>, <<100, 2500>> >>

\* the chunks spilled so far for input f (counted from 0), in spill order
ChunksOf(f) == SelectSeq(mg_temp_files, LAMBDA t : t.file = f)

ChunkHeights(chunks) == [k \in DOMAIN chunks |-> chunks[k].height]

AllSpilled ==
    \/ mg_pc \in {"assemble", "paste", "stream_save"}
    \/ mg_pc = "done" /\ mg_result.at \in {"assemble", "paste", "stream_save"}

\* C4: the streaming path cuts every input into chunks of at most 1000 rows
\* that cover its rows once each, in order; a chunk that starts at row r of
\* input k is recorded, and later pasted, at y = (sum of the heights of the
\* inputs before k) + r and x = (maxWidth - chunkWidth) // 2, which is where
\* the in-memory path puts that row; the composite is max-width wide and
\* sum-of-heights high.
C4_StreamingPlacement ==
    StreamingPath =>
        /\ \A f \in 0 .. Len(mg_files) - 1 :
             LET chunks == ChunksOf(f)
             IN  /\ \A k \in DOMAIN chunks :
                      /\ chunks[k].height >= 1
                      /\ chunks[k].height <= 1000
                      /\ chunks[k].width = mg_files[f + 1].w
                      /\ chunks[k].src_y = SumSeq(SubSeq(ChunkHeights(chunks), 1, k - 1))
                      /\ chunks[k].src_y + chunks[k].height <= mg_files[f + 1].h
                      /\ chunks[k].y_pos = RowsBefore(mg_files, f + 1) + chunks[k].src_y
                 /\ AllSpilled => SumSeq(ChunkHeights(chunks)) = mg_files[f + 1].h
        /\ \A k \in 1 .. Len(mg_temp_files) - 1 :
             mg_temp_files[k].file <= mg_temp_files[k + 1].file
        /\ \A k \in DOMAIN mg_pastes :
             LET p == mg_pastes[k]
                 t == mg_temp_files[k]
             IN  /\ p.file = t.file /\ p.src_y = t.src_y
                 /\ p.w = t.width /\ p.h = t.height
                 /\ p.y = t.y_pos
                 /\ Centred(p.x, MaxWidthOf(mg_files), p.w)
        /\ NoOverlap(mg_pastes)
        /\ mg_canvas.state # "none" =>
             /\ mg_canvas.w = MaxWidthOf(mg_files)
             /\ mg_canvas.h = SumSeq(HeightsOf(mg_files))

C4_Witness ==
    /\ mg_output.written
    /\ mg_files = << [w |-> 60000, h |-> 2500], [w |-> 801, h |-> 2000] >>
    /\ Len(mg_pastes) = 5
    /\ [k \in 1 .. 5 |-> <<mg_pastes[k].x, mg_pastes[k].y, mg_pastes[k].h>>]
         = << <<0, 0, 1000>>, <<0, 1000, 1000>>, <<0, 2000, 500>>,
              <<29599, 2500, 1000>>, <<29599, 3500, 1000>> >>


\* C7: when the flag is set at a file boundary of the descriptor pass, of
\* the in-memory compositing pass or of the streaming spill pass, the very
\* next step of the merge is its return: nothing is encoded, nothing more is
\* reported, and in the compositing pass the composite is closed; a merge
\* that has returned takes no further step, so no output appears afterwards.
C7_CancelAtFileBoundary ==
    [][ /\ mg_pc # "done"
        /\ (mg_cancel /\ mg_pc \in {"describe", "composite", "spill_open"}) =>
              /\ mg_pc' = "done"
              /\ mg_result'.kind = "cancelled"
              /\ ~mg_output'.written
              /\ mg_progress' = mg_progress
              /\ mg_pastes' = mg_pastes
              /\ mg_pc = "composite" => mg_canvas'.state = "closed" ]_vars

C7_Witness ==
    /\ mg_pc = "done"
    /\ mg_observed = "composite"
    /\ Len(mg_files) = 3
    /\ mg_result = [kind |-> "cancelled", at |-> "composite", file |-> 2, cause |-> "none"]
    /\ Len(mg_pastes) = 2
    /\ mg_canvas.state = "closed"
    /\ ~mg_output.written

\* C8: once the reassembly loop has seen the flag set, nothing is encoded
\* to the output path, and the composite is released by the time the merge
\* has returned (a merge that raised is left to the other error claims).
C8_NoOutputAfterCancelInReassembly ==
    mg_observed = "paste" =>
        /\ ~mg_output.written
        /\ (mg_pc = "done" /\ mg_result.kind # "error") => mg_canvas.state = "closed"

\* C9: when the streaming merge has returned or raised, no temporary chunk
\* file that it created is left on disk.
C9_TempFilesDeleted ==
    mg_pc = "done" => mg_disk = {}

(***************************************************************************)
(* Properties of the cache.                                                *)
(***************************************************************************)
\* C5: between calls, the tracked total size is at most the budget.
C5_TrackedSizeWithinBudget ==
    current_size_mb <= max_size_mb

\* C6: eviction follows insertion order: the entries popped by one insertion
\* come out oldest-inserted first, and every entry still cached was inserted
\* after every entry popped, whenever the entries were last read.
C6_EvictionByInsertionOrder ==
    /\ \A a, b \in DOMAIN ca_evicted :
         a < b => ca_evicted[a].stamp < ca_evicted[b].stamp
    /\ \A a \in DOMAIN ca_evicted, k \in DOMAIN cache :
         ca_evicted[a].stamp < cache[k].stamp

\* A, B inserted, A read again, then C's insertion exceeds the budget:
\* A is popped although it was read after B was inserted; B stays.
C6_Witness ==
    /\ Len(ca_evicted) = 1
    /\ Len(cache) = 2
    /\ ca_evicted[1].stamp < cache[1].stamp
    /\ ca_evicted[1].hit > cache[1].stamp
    /\ cache[1].hit = 0


(***************************************************************************)
(* Properties of the merger: failures, limits, path, progress, order.      *)
(***************************************************************************)
\* an input could not be described, opened or decoded
InputFailed ==
    /\ mg_result.kind = "error"
    /\ mg_result.at \in {"describe", "composite", "spill"}
    /\ mg_result.cause \in {"no_info", "decode_failed", "crop_failed"}

\* C11: when an input cannot be described, decoded or composited the merge
\* is over with an error whose message names that input; no later input was
\* described, pasted or spilled, the composite is not left open, nothing is
\* encoded; and whatever is encoded has every input in it.
C11_InputFailureNamesFile ==
    /\ InputFailed =>
         /\ mg_pc = "done"
         /\ NamedInMessage(mg_result) = mg_result.file
         /\ mg_result.file \in 0 .. Len(mg_files) - 1
         /\ Len(mg_info) <= IF mg_result.at = "describe" THEN mg_result.file
                                                         ELSE Len(mg_files)
         /\ \A k \in DOMAIN mg_pastes : mg_pastes[k].file < mg_result.file
         /\ \A k \in DOMAIN mg_temp_files : mg_temp_files[k].file <= mg_result.file
         /\ mg_canvas.state # "open"
         /\ ~mg_output.written
    /\ (mg_output.written /\ mg_observed = "none") =>
         {mg_pastes[k].file : k \in DOMAIN mg_pastes} = 0 .. Len(mg_files) - 1

\* every input has been described
AllDescribed == Len(mg_info) = Len(mg_files)

\* maxWidth * totalHeight > 2^31 - 1 for the inputs of the merge, stated on
\* the width: the product exceeds the ceiling when the width exceeds the
\* number of whole times the height goes into the ceiling
OverCeiling ==
    /\ mg_files # <<>>
    /\ MaxWidthOf(mg_files) > PIL_MAX_PIXELS \div SumSeq(HeightsOf(mg_files))

\* C12: a merge whose maxWidth * totalHeight exceeds 2^31 - 1 ends at the
\* size check, with the pixel-limit error, before anything else is done: no
\* composite is allocated, no input is decoded or pasted, no temporary file
\* is created, nothing is encoded.  The check comes before the choice of the
\* path: neither path is ever entered over the ceiling.  A product equal to
\* the ceiling is not refused.
C12_PixelCeiling ==
    /\ mg_result.cause = "pixel_limit" =>
         /\ mg_pc = "done" /\ mg_result.kind = "error" /\ mg_result.at = "plan"
         /\ AllDescribed /\ OverCeiling
         /\ mg_canvas = NoCanvas
         /\ mg_pastes = <<>> /\ mg_temp_files = <<>>
         /\ mg_disk = {} /\ mg_next_temp = 1
         /\ mg_output = NoOutput
    /\ (InMemoryPath \/ StreamingPath) => (AllDescribed /\ ~OverCeiling)
    /\ (AllDescribed /\ OverCeiling /\ mg_pc = "done") =>
         mg_result.cause = "pixel_limit" \/ mg_result.kind = "cancelled"

C12_Witness ==
    /\ mg_pc = "done"
    /\ mg_result.cause = "pixel_limit"
    /\ mg_files = << [w |-> 60000, h |-> 2500], [w |-> 60000, h |-> 36000] >>
    /\ mg_canvas = NoCanvas /\ mg_temp_files = <<>> /\ ~mg_output.written

\* maxWidth * totalHeight * 4 bytes > 1000 MiB for the inputs of the merge,
\* stated on the width as OverCeiling is
OverThreshold ==
    /\ mg_files # <<>>
    /\ MaxWidthOf(mg_files) > StreamingPixels \div SumSeq(HeightsOf(mg_files))

ProgressLeq(a, b) == a[1] * b[2] <= b[1] * a[2]

ProgressWithin(v, lo, hi) == lo * v[2] <= v[1] /\ v[1] <= hi * v[2]

ProgressIs100(v) == v[1] = 100 * v[2]

NonDecreasing(values) ==
    \A k \in 1 .. Len(values) - 1 : ProgressLeq(values[k], values[k + 1])

\* C14: within one split or one merge the values reported never decrease
\* and lie in 0..100.  In a merge the descriptor pass reports within 0-20
\* (one value per input described), the in-memory compositing pass within
\* 20-90, the streaming spill pass within 20-80; 100 is reported once, last,
\* and only when the output has been encoded (for a split: when every slice
\* has been written).
C14_ProgressMonotone ==
    /\ NonDecreasing(sp_progress)
    /\ \A k \in DOMAIN sp_progress :
         /\ ProgressWithin(sp_progress[k], 0, 100)
         /\ ProgressIs100(sp_progress[k]) =>
               /\ k = Len(sp_progress)
               /\ sp_pc = "done" /\ sp_error = NoError
               /\ Len(sp_slices) = Len(sp_seq) - 1
    /\ NonDecreasing(mg_progress)
    /\ \A k \in DOMAIN mg_progress :
         LET v == mg_progress[k]
         IN  /\ ProgressWithin(v, 0, 100)
             /\ IF k <= Len(mg_info)
                THEN ProgressWithin(v, 0, 20)
                ELSE IF ProgressIs100(v)
                THEN k = Len(mg_progress) /\ mg_output.written /\ mg_pc = "done"
                ELSE /\ InMemoryPath => ProgressWithin(v, 20, 90)
                     /\ StreamingPath => ProgressWithin(v, 20, 80)
    /\ Len(mg_progress) >= Len(mg_info)

\* a merge of three inputs in memory: 0, 6.67, 13.3, then 43.3, 66.7, 90, then 100
C14_Witness ==
    /\ mg_pc = "done" /\ mg_output.written
    /\ mg_progress = << <<0, 3>>, <<20, 3>>, <<40, 3>>,
                        <<130, 3>>, <<200, 3>>, <<270, 3>>, <<100, 1>> >>

(***************************************************************************)
(* Properties of the slicer: probe, release of the source, order, names.   *)
(***************************************************************************)
\* C15: whichever split function is called, the output directory has passed
\* the write-and-delete probe (the probe file written and removed again)
\* before the source is opened or decoded and before a slice is cropped or
\* written; a directory that fails ends the split with an error and no
\* slice.
C15_ProbeBeforeProcessing ==
    /\ (sp_pre_img # "none" \/ sp_img # "none" \/ sp_crops > 0 \/ sp_slices # <<>>)
          => sp_probe = "deleted"
    /\ sp_error.kind = "output" =>
          (sp_pc = "done" /\ sp_slices = <<>> /\ sp_img = "none" /\ sp_pre_img = "none")
    /\ sp_probe = "present" => (sp_pc = "done" /\ sp_error.kind = "output")

\* C16: when split_image_at_points or split_image_at_points_custom is over,
\* the source it decoded is not left open, however the function ended.
C16_SourceClosedOnExit ==
    sp_pc = "done" => sp_img # "open"

\* C17: work is done in the order given.  Slices are cropped and written by
\* ascending index without a gap; the descriptor pass and the compositing
\* pass take input k before input k+1 (the k-th descriptor and the k-th
\* paste are those of the k-th file); the spill pass takes the inputs in
\* order and the chunks of one input by ascending row, and the reassembly
\* pastes the chunks in the order they were spilled.
C17_ProcessedInOrder ==
    /\ \A k \in DOMAIN sp_slices : sp_slices[k].index = k - 1
    /\ sp_crops \in {Len(sp_slices), Len(sp_slices) + 1}
    /\ \A k \in DOMAIN mg_info : mg_info[k] = mg_files[k]
    /\ InMemoryPath =>
         \A k \in DOMAIN mg_pastes :
             /\ mg_pastes[k].file = k - 1
             /\ mg_pastes[k].w = mg_files[k].w /\ mg_pastes[k].h = mg_files[k].h
    /\ \A k \in DOMAIN mg_temp_files :
         LET t == mg_temp_files[k]
         IN  /\ t.width = mg_files[t.file + 1].w
             /\ t.src_y + t.height <= mg_files[t.file + 1].h
             /\ k > 1 =>
                  LET u == mg_temp_files[k - 1]
                  IN  \/ u.file = t.file /\ u.src_y + u.height = t.src_y
                      \/ /\ u.file + 1 = t.file /\ t.src_y = 0
                         /\ u.src_y + u.height = mg_files[u.file + 1].h
             /\ k = 1 => (t.file = 0 /\ t.src_y = 0)
    /\ StreamingPath =>
         \A k \in DOMAIN mg_pastes :
             /\ mg_pastes[k].file = mg_temp_files[k].file
             /\ mg_pastes[k].src_y = mg_temp_files[k].src_y

\* a streamed merge of a 801x2000 and a 60000x2500 input: chunks at rows
\* 0, 1000 of the first and 0, 1000, 2000 of the second, pasted in that order
C17_Witness ==
    /\ mg_pc = "done" /\ mg_result.kind = "ok"
    /\ mg_files = << [w |-> 801, h |-> 2000], [w |-> 60000, h |-> 2500] >>
    /\ [k \in DOMAIN mg_pastes |-> <<mg_pastes[k].file, mg_pastes[k].src_y>>]
         = << <<0, 0>>, <<0, 1000>>, <<1, 0>>, <<1, 1000>>, <<1, 2000>> >>

\* the value of a sequence of decimal digits
RECURSIVE DecimalValue(_)
DecimalValue(d) ==
    IF d = <<>> THEN 0
    ELSE 10 * DecimalValue(SubSeq(d, 1, Len(d) - 1)) + d[Len(d)]

RECURSIVE NumDigits(_)
NumDigits(n) == IF n < 10 THEN 1 ELSE 1 + NumDigits(n \div 10)

\* d is n written in decimal, with zeros in front up to width characters
IsZeroPadded(d, n, width) ==
    /\ Len(d) = Max(width, NumDigits(n))
    /\ \A k \in DOMAIN d : d[k] \in 0 .. 9
    /\ DecimalValue(d) = n

\* the index width in force: digits for split_image_at_points_custom, 3 otherwise
IndexWidth == IF sp_fn = "split_image_at_points_custom" THEN sp_digits ELSE 3

\* the (version, index) pairs a name is compared with
NameVersions == (0 .. 13) \cup {99, 100, 999, 1000}
NameIndices == (0 .. 12) \cup {99, 100, 999, 1000}

\* C18: slice i of a split of version v is named base_<i> when v = 0 and
\* base_v<v>_<i> when v > 0, with <v> zero-padded to 3 characters and <i> to
\* the index width; with the base and the width fixed, no other
\* (version, index) pair gets the name of a slice that was written.
C18_SliceNames ==
    \A k \in DOMAIN sp_slices :
        LET name == sp_slices[k].name
            i    == sp_slices[k].index
            n    == Len(name)
            vlen == Max(3, NumDigits(sp_version))
        IN  /\ name[1] = "base" /\ name[n] = "ext" /\ name[2] = "_"
            /\ IF sp_version = 0
               THEN IsZeroPadded(SubSeq(name, 3, n - 1), i, IndexWidth)
               ELSE /\ name[3] = "v"
                    /\ IsZeroPadded(SubSeq(name, 4, 3 + vlen), sp_version, 3)
                    /\ name[4 + vlen] = "_"
                    /\ IsZeroPadded(SubSeq(name, 5 + vlen, n - 1), i, IndexWidth)
            /\ \A v \in NameVersions, j \in NameIndices :
                 <<v, j>> # <<sp_version, i>> =>
                     SliceName(sp_fn, v, j, sp_digits) # name

\* version 12, one digit asked for, slice 10 of 12: base_v012_10
C18_Witness ==
    /\ sp_fn = "split_image_at_points_custom"
    /\ sp_version = 12 /\ sp_digits = 1
    /\ Len(sp_slices) = 12
    /\ sp_slices[11].name = <<"base", "_", "v", 0, 1, 2, "_", 1, 0, "ext">>
    /\ sp_slices[1].name = <<"base", "_", "v", 0, 1, 2, "_", 0, "ext">>

(***************************************************************************)
(* Properties of the cache: what is cached, and whose buffer it is.        *)
(***************************************************************************)
\* C19: a get that misses returns the buffer it decoded; the buffer is
\* cached exactly when its size is at most 50 MiB (50 MiB itself included),
\* and what is cached is a copy, not the buffer returned; a get that hits
\* returns a copy too: the caller never holds a buffer that the cache holds.
C19_CachedUpTo50MiB ==
    /\ ca_last \in {"inserted", "not_cached"} =>
         /\ ca_returned.buf = DecodedBuffer(ca_clock)
         /\ (ca_last = "inserted") <=> (ca_returned.size <= 50 * MiB)
    /\ ca_last = "inserted" =>
         /\ cache # <<>>
         /\ cache[Len(cache)].stamp = ca_clock
         /\ ImgSize(cache[Len(cache)]) = ca_returned.size
    /\ ca_last = "not_cached" =>
         \A k \in DOMAIN cache : cache[k].stamp # ca_clock
    /\ ca_last = "hit" => ca_returned.buf # NoBuffer.buf
    /\ \A k \in DOMAIN cache : cache[k].buf # ca_returned.buf

\* every thread is outside get
AllReturned == \A t \in Threads : threads[t].pc = "outside"

PresentSize == SumSeq([k \in DOMAIN cache |-> ImgSize(cache[k])])

NoRepeat(seq) == \A a, b \in DOMAIN seq : a # b => seq[a] # seq[b]

\* C20: with gets called from two threads, whenever every call has
\* returned the tracked size is the sum of the sizes of the entries present
\* and is within the budget, and no buffer was popped or closed twice.
C20_SharedCacheAccounting ==
    /\ AllReturned =>
         /\ current_size_mb = PresentSize
         /\ current_size_mb <= max_size_mb
    /\ NoRepeat([k \in DOMAIN ca_evicted |-> ca_evicted[k].buf])
    /\ NoRepeat(closed)

\* C21: once cancellation has been requested, a split that stands at a
\* slice boundary crops and writes no further slice.
C21_SplitObservesCancel ==
    [][ (sp_cancel /\ sp_pc = "loop") =>
            (sp_crops' = sp_crops /\ sp_slices' = sp_slices) ]_vars

(***************************************************************************)
(* Properties of the encoder.                                              *)
(***************************************************************************)
\* C22: on the JPEG path the label Lossless encodes at quality 100 and High
\* at 95, both with subsampling switched off, Medium at 85 and Low at 70
\* with the encoder's default subsampling; an int quality is handed on as
\* it is; subsampling is switched off for Lossless and High only.
C22_QualityMap ==
    sv_saved.format = "JPEG" =>
        LET q == sv_quality
            o == sv_saved
            Is(l) == q.kind = "label" /\ q.label = l
        IN /\ Is("Lossless") => (o.quality = 100 /\ o.subsampling = "0")
           /\ Is("High") => (o.quality = 95 /\ o.subsampling = "0")
           /\ Is("Medium") => (o.quality = 85 /\ o.subsampling = "absent")
           /\ Is("Low") => (o.quality = 70 /\ o.subsampling = "absent")
           /\ q.kind = "int" => (o.quality = q.value /\ o.subsampling = "absent")
           /\ o.subsampling = "0" => (Is("Lossless") \/ Is("High"))

C22_Witness ==
    /\ sv_pc = "done" /\ sv_result = "ok"
    /\ sv_saved.format = "JPEG"
    /\ sv_quality.kind = "int" /\ sv_quality.value = 90
    /\ sv_saved.quality = 90

\* C23: when save_image_with_quality has returned or raised, every buffer
\* it created (the working copy, a converted copy, the white background)
\* has been closed, and the caller's image has not.
C23_IntermediateBuffersClosed ==
    sv_pc = "done" =>
        /\ (sv_made \ {"img"}) \subseteq sv_closed
        /\ "img" \notin sv_closed

\* C24: a call that names a platform does not fail for that reason: once
\* the working copy exists it goes on to the encode, and it ends with an
\* output unless a conversion or the file system fails.
C24_PlatformApplied ==
    (sv_pc = "done" /\ sv_platform /\ "copy" \in sv_made) =>
        /\ sv_result \in {"ok", "io_error", "convert_error", "paste_error"}
        /\ (sv_result \in {"ok", "io_error"} => sv_saved # NoSave)

(***************************************************************************)
(* Properties of the PSD loader.                                           *)
(***************************************************************************)
TriedNames == [k \in DOMAIN pd_tried |-> pd_tried[k].strategy]

Gave(k) == pd_tried[k].outcome \in {"image", "array"}

\* C25: the strategies are called in the order compose, as_PIL, composite;
\* the first one that gives an image is the last one called; when none gave
\* an image all three were called, however the earlier ones failed.
C25_FallbackChain ==
    (pd_pc = "done" /\ pd_tried # <<>>) =>
        /\ TriedNames = SubSeq(Strategies, 1, Len(pd_tried))
        /\ \A k \in 1..(Len(pd_tried) - 1) : ~Gave(k)
        /\ (~Gave(Len(pd_tried)) => Len(pd_tried) = Len(Strategies))

Held == [k \in DOMAIN cache |-> <<cache[k].key, cache[k].buf>>]

\* C27: after every get and every clear called one after the other, the
\* tracked size is the sum of the sizes of the entries held, it is not
\* negative and it is 0 when nothing is held; a get that hits leaves the
\* dict and the tracked size as they were.
C27_TrackedSizeIsSumOfEntries ==
    [][ /\ current_size_mb' = PresentSize'
        /\ current_size_mb' >= 0
        /\ (cache' = <<>> => current_size_mb' = 0)
        /\ (ca_last' = "hit" =>
                (Held' = Held /\ current_size_mb' = current_size_mb)) ]_vars

\* an insertion popped an entry and the total is that of what is left
C27_Witness ==
    /\ ca_last = "inserted" /\ ca_evicted # <<>>
    /\ Len(cache) >= 2
    /\ current_size_mb = PresentSize
    /\ current_size_mb > 0

(***************************************************************************)
(* Properties of the rows and of the batch split.                          *)
(***************************************************************************)
\* C28: the completion poll of the batch split ends: once the row it waits
\* for has no worker left, the row's state differs from the state noted
\* before _do_split, so the next check_completion moves on.
C28_BatchPollEnds ==
    (bt_pc = "poll" /\ rw_worker[bt_t[bt_index + 1]].phase = "none") =>
        rw_state[bt_t[bt_index + 1]] # bt_original

\* the entry of the row's history that the worker of row r belongs to
EntryOf(r) == CHOOSE h \in rw_hist[r] : h.ver = rw_worker[r].ver

\* C29: when the worker's callback sets the row's state, it sets OK or vNNN
\* only for a split that wrote every slice and ERR for one that failed; and
\* a row is not marked SKIP for settings whose recorded split failed.
C29_RowStateReflectsSplit ==
    [][ \A r \in Rows :
          /\ (rw_worker[r].phase = "posted" /\ rw_worker'[r].phase = "none") =>
                /\ rw_state'[r].tag \in {"OK", "v"} => EntryOf(r).outcome = "written"
                /\ EntryOf(r).outcome = "failed" => rw_state'[r].tag = "ERR"
          /\ (rw_state'[r] = Skip /\ rw_state[r] # Skip) =>
                \A h \in rw_hist[r] :
                    h.combo = Combo(rw_pos[r]) => h.outcome # "failed" ]_vars

(***************************************************************************)
(* Properties of the cut-point editor.                                     *)
(***************************************************************************)
\* C30: an undo that follows an edit at once (add, drag, delete, clear,
\* auto-split; the first edit included) brings cut_points back to what they
\* were before the edit, a redo that follows that undo at once brings back
\* what the edit left, and the undo stack holds at most 50 states.
C30_UndoRedoRoundTrip ==
    /\ ed_mark.phase = "undone" => ed_cut_points = ed_mark.before
    /\ ed_mark.phase = "redone" => ed_cut_points = ed_mark.after
    /\ Len(ed_undo_stack) <= 50

====
